---- MODULE Spec2Model ----
(***************************************************************************)
(* Model of the Ubik compile/publish orchestrator (src/src/Publisher.mjs): *)
(* Publisher.releasePackage, Compiler.compileAndPatch, the two concurrent  *)
(* Compiler.emitPatched tasks, Compiler.collect and Compiler.revert,       *)
(* together with the package directory they act on.                        *)
(*                                                                         *)
(* File names are sequences of their dot-separated components:             *)
(* "a.dist.mjs.map" is <<"a", "dist", "mjs", "map">>, and an extension     *)
(* ".js.map" is <<"js", "map">>, so String.endsWith and replaceExtension   *)
(* are computed on the names and not assumed.                              *)
(*                                                                         *)
(* The run is started from the package root (as ubik.cli.mjs does), and    *)
(* the package directory holds no package.json.bak and no dist file        *)
(* before the run.                                                         *)
(***************************************************************************)
EXTENDS Integers, Sequences, FiniteSets, TLC

\* Number of TypeScript modules in the package that is compiled.
MaxMods == 1

ModNames == <<"a", "b", "c">>

Mods == { ModNames[i] : i \in 1..MaxMods }

Formats == {"esm", "cjs"}

\* Registry answers that are tried: found, not found, rate limited.
Statuses == {200, 404, 429}

\* Publish arguments passed from the command line.
ArgLists == {<< >>, <<"--dry-run">>, <<"--access">>}

(***************************************************************************)
(* Strings and paths                                                       *)
(***************************************************************************)

\* String.prototype.endsWith on component sequences.
EndsWith(x, suffix) ==
  /\ Len(x) >= Len(suffix)
  /\ SubSeq(x, Len(x) - Len(suffix) + 1, Len(x)) = suffix

\* Array.prototype.includes
Includes(list, item) == \E i \in 1..Len(list) : list[i] = item

\* replaceExtension (x, a, b): basename(x, a) drops a trailing a, then b is added.
replaceExtension(x, a, b) ==
  IF EndsWith(x, a) /\ Len(x) > Len(a)
    THEN SubSeq(x, 1, Len(x) - Len(a)) \o b
    ELSE x \o b

\* What tsc writes into its --outDir for one module when asked for
\* --sourceMap --declaration --declarationMap.
TscOutputs(m) ==
  { <<m, "js">>, <<m, "js", "map">>, <<m, "d", "ts">>, <<m, "d", "ts", "map">> }

AllTscOutputs == UNION { TscOutputs(m) : m \in Mods }

\* The options compileAndPatch passes to each emitPatched call.
EmitOptions(fmt) ==
  IF fmt = "esm"
    THEN [ outputs    |-> <<"dist", "mjs">>,
           sourceMaps |-> <<"dist", "mjs", "map">>,
           types      |-> <<"dist", "d", "mts">>,
           typeMaps   |-> <<"dist", "d", "mts", "map">> ]
    ELSE [ outputs    |-> <<"dist", "cjs">>,
           sourceMaps |-> <<"dist", "cjs", "map">>,
           types      |-> <<"dist", "d", "cts">>,
           typeMaps   |-> <<"dist", "d", "cts", "map">> ]

\* Order of the generated extensions under Array.prototype.sort (code units).
ExtOrder ==
  << <<"dist", "cjs">>, <<"dist", "cjs", "map">>,
     <<"dist", "d", "cts">>, <<"dist", "d", "cts", "map">>,
     <<"dist", "d", "mts">>, <<"dist", "d", "mts", "map">>,
     <<"dist", "mjs">>, <<"dist", "mjs", "map">> >>

ModIndex(m) == CHOOSE i \in 1..Len(ModNames) : ModNames[i] = m

ExtIndex(e) == CHOOSE i \in 1..Len(ExtOrder) : ExtOrder[i] = e

\* Position of a generated path in [...this.generated].sort()
SortRank(file) == ModIndex(Head(file)) * (Len(ExtOrder) + 1) + ExtIndex(Tail(file))

(***************************************************************************)
(* Publisher: the gates in front of compilation                            *)
(***************************************************************************)

\* NPMPackage.isTypeScript
isTypeScript(pkg, forceTS) == forceTS \/ EndsWith(pkg.main, <<"ts">>)

\* releasePackage, the two early returns: "private", "patched" or "go".
SkipReason(pkg, skipFixed) ==
  IF pkg.private THEN "private"
  ELSE IF pkg.ubik /\ skipFixed THEN "patched"
  ELSE "go"

\* ensureFreshTag: what the call does when `git rev-parse <tag>` exits with
\* status 0 (tagExists) or not.  TagAlreadyExists is thrown inside the try
\* block whose catch clause returns the tag, so that both ways return it.
ensureFreshTag(pkg, tagExists) ==
  IF pkg.name = "" THEN [ throws |-> "MissingName", tag |-> "" ]
  ELSE IF pkg.version = "" THEN [ throws |-> "MissingVersion", tag |-> "" ]
  ELSE LET inTry == IF tagExists THEN "TagAlreadyExists" ELSE "rev-parse failed"
       IN  IF inTry \in {"TagAlreadyExists", "rev-parse failed"}
             THEN [ throws |-> "", tag |-> "npm/name/version" ]
             ELSE [ throws |-> inTry, tag |-> "" ]

\* isPublished, before the fetch: the checks of name and version.
isPublishedArgs(pkg) ==
  IF pkg.name = "" THEN "MissingName"
  ELSE IF pkg.version = "" THEN "MissingVersion"
  ELSE ""

\* isPublished without the branch for unexpected status codes.
isPublishedLenient(status) == IF status = 200 THEN "yes" ELSE "no"

\* isPublished, after the fetch: "yes", "no" or the error thrown.
isPublished(status) ==
  IF status = 200 THEN "yes"
  ELSE IF status # 404 THEN "NPMErrorCode"
  ELSE "no"

makeSureRunIsDry(publishArgs) ==
  IF ~Includes(publishArgs, "--dry-run")
    THEN <<"--dry-run">> \o publishArgs
    ELSE publishArgs

\* performRelease called whatever the mode.
ShouldPublishAlways(dryRun) == TRUE

\* releasePackage: whether performRelease is called.
ShouldPublish(dryRun) == ~dryRun

\* releasePackage: whether tagRelease is called after performRelease.
ShouldTag(args, tag) == ~Includes(args, "--dry-run") /\ tag # ""

(***************************************************************************)
(* Compiler.revert                                                         *)
(***************************************************************************)

\* The generated files that the loop over [...generated].sort() unlinks:
\* unlinkSync throws ENOENT at the first path that is not on disk.
Unlinked(root, gen) ==
  { f \in gen : \A g \in gen : SortRank(g) <= SortRank(f) => g \in root }

\* revert () restoring the backup without looking whether there is one:
\* copyFileSync throws ENOENT when package.json.bak is missing.
revertUnchecked(keep, pj, bak, root, gen) ==
  IF keep
    THEN [ pj |-> pj, bak |-> bak, root |-> root, throws |-> "" ]
    ELSE IF bak = "absent"
      THEN [ pj |-> pj, bak |-> bak, root |-> root, throws |-> "ENOENT" ]
      ELSE [ pj     |-> bak,
             bak    |-> "absent",
             root   |-> root \ Unlinked(root, gen),
             throws |-> IF gen \subseteq root THEN "" ELSE "ENOENT" ]

\* revert () restoring the manifest but leaving the generated files.
revertKeepsFiles(keep, pj, bak, root, gen) ==
  IF keep
    THEN [ pj |-> pj, bak |-> bak, root |-> root, throws |-> "" ]
    ELSE [ pj     |-> IF bak = "absent" THEN pj ELSE bak,
           bak    |-> "absent",
           root   |-> root,
           throws |-> "" ]

\* revert () on a package directory holding package.json (content pj),
\* package.json.bak (content bak, "absent" if there is none) and the
\* files root.
revert(keep, pj, bak, root, gen) ==
  IF keep
    THEN [ pj |-> pj, bak |-> bak, root |-> root, throws |-> "" ]
    ELSE [ pj     |-> IF bak = "absent" THEN pj ELSE bak,
           bak    |-> "absent",
           root   |-> root \ Unlinked(root, gen),
           throws |-> IF gen \subseteq root THEN "" ELSE "ENOENT" ]

\* catch (e) { revert(); throw e }: the error that leaves the handler.
Rethrown(e, reverted) == IF reverted.throws # "" THEN reverted.throws ELSE e

\* The manifest written before it is backed up.
PersistOrderSwapped == <<"write", "backup">>

\* compileAndPatch, the last two file operations in the order they are made.
PersistOrder == <<"backup", "write">>

(***************************************************************************)
(* State                                                                   *)
(***************************************************************************)

VARIABLES
  opts,         \* options of the run: dryRun, keep
  env,          \* process.env: UBIK_SKIP_FIXED, UBIK_FORCE_TS
  gitTag,       \* whether the tag npm/<name>/<version> exists in the repository
  origPkg,      \* the manifest as package.json holds it before the run
  pkg,          \* this.pkg, the manifest object in memory
  args,         \* this.args, the publish arguments
  tag,          \* the local `tag` of releasePackage ("" while undefined)
  status,       \* status of the registry response (0 before the fetch)
  pc,           \* position of releasePackage / compileAndPatch
  task,         \* position of each emitPatched call
  pkgJsonFile,  \* content of package.json: "orig" or "patched"
  bakFile,      \* content of package.json.bak, or "absent"
  rootFiles,    \* dist files in the package root
  scratch,      \* per format: whether the scratch directory exists, its files
  generated,    \* this.generated
  patched,      \* per format: the keys of the Patch Records (Patcher.patched)
  patchWrites,  \* files that savePatched has written to disk
  cmds,         \* external commands executed so far
  outcome,      \* of releasePackage: "none", "returned" or "threw"
  retval,       \* what it returned: "true", "undefined" or "pkg"
  delivered,    \* the error it threw
  raised,       \* the exception that was raised first on that path
  via,          \* "revert" if a handler reverted before rethrowing, else "direct"
  failedIn      \* the orchestrator state in which that exception was raised

vars == << opts, env, gitTag, origPkg, pkg, args, tag, status, pc, task, pkgJsonFile,
           bakFile, rootFiles, scratch, generated, patched, patchWrites, cmds,
           outcome, retval, delivered, raised, via, failedIn >>

confVars == << opts, env, gitTag, origPkg >>

diskVars == << pkgJsonFile, bakFile, rootFiles, scratch, patchWrites >>

resultVars == << outcome, retval, delivered, raised, via, failedIn >>

\* The state of the source tools (the Resolver, the splitter and the
\* patchers), which the orchestrator never touches.
VARIABLES
  tree,         \* the directory under the Resolver's root: path -> "absent", "file", "dir"
  index,        \* the Resolver, a Map: relative path -> class of its Entry
  loaded,       \* whether Resolver.load has run
  resolved      \* the last call of Resolver.resolve and what came of it

resolverVars == << tree, index, loaded, resolved >>

VARIABLES
  exportsOf,    \* per TSFile of the Resolver: its `exports` and `exportTypes`
  heap,         \* the Map objects of the module under split, by address
  file,         \* the TSFile: addresses of imports, importTypes, reexports, reexportTypes
  given,        \* what TSFile.patch handed to separateTypeImports
  new,          \* separateTypeImports: addresses of newImports, newImportTypes, ...
  cursor,       \* separateTypeImports: the loop it is in and the turn of that loop
  patch         \* "parsing", "updating", then "patched" or the error that patch threw

splitVars == << exportsOf, heap, file, given, new, cursor, patch >>

\* The output patchers (src/src/Patcher.mjs)
VARIABLES
  patcher,      \* the Patcher under use: its class and its dryRun option
  disk,         \* the files that exist beside the file to patch
  content,      \* what the file to patch holds on disk: a sequence of nodes
  input,        \* what the last call of patch() parsed
  record,       \* this.patched of the last call, the Patch Record
  thrown,       \* the error that the last call of patch() threw, "" if none
  runs          \* calls of patch() so far

patcherVars == << patcher, disk, content, input, record, thrown, runs >>

\* The manifest rewriters (patchPackageJson of src/tool/tool-package.mjs and
\* the entrypoint part of Compiler.compileAndPatch)
VARIABLES
  pkgJson,      \* the manifest object handed to the rewriter
  rewrite       \* the call: the function, UBIK_FORCE_TS, the object as given, the error

manifestVars == << pkgJson, rewrite >>

\* fixImportDirs (src/src/Patcher.mjs) on one declaration of one module
VARIABLES
  fixing        \* the module, the specifier of the declaration, the passes so far

fixVars == << fixing >>

\* separateNamespaceImport (src/src/Patcher.mjs)
VARIABLES
  program,      \* parsed.program.body of the file: a sequence of nodes
  stars         \* the call: packageName, dryRun, the body as parsed, what came of it

starVars == << program, stars >>

\* The lazy load of TSFile (src/tool/tool-resolve.mjs)
VARIABLES
  bodies,       \* per module: the export declarations of its source
  loading       \* the nested calls of load, the modules loaded, the error thrown

loadVars == << bodies, loading >>

\* The state of the tools that have no part in the four specifications above.
restVars == << manifestVars, fixVars, starVars, loadVars >>

toolVars == << resolverVars, splitVars, patcherVars, restVars >>

allVars == << vars, toolVars >>

\* What resolve came to: kind is "none" (not called), "null", "threw" or "entry".
NoResult == [ kind |-> "none", path |-> << >>, class |-> "", error |-> "" ]

\* A call of resolve: its arguments, whether load had run, and the result.
NoCall == [ source |-> << >>, target |-> << >>, loaded |-> FALSE, result |-> NoResult ]

\* The Resolver before its construction: nothing indexed, nothing asked.
ResolverIdle ==
  /\ tree = << >>
  /\ index = << >>
  /\ loaded = FALSE
  /\ resolved = NoCall

\* No module is being split.
SplitterIdle ==
  /\ exportsOf = << >>
  /\ heap = << >>
  /\ file = << >>
  /\ given = << >>
  /\ new = << >>
  /\ cursor = << >>
  /\ patch = ""

PatcherIdle ==
  /\ patcher = << >>
  /\ disk = {}
  /\ content = << >>
  /\ input = << >>
  /\ record = << >>
  /\ thrown = ""
  /\ runs = 0

\* No manifest is being rewritten.
ManifestIdle ==
  /\ pkgJson = << >>
  /\ rewrite = << >>

\* No import is being fixed.
FixIdle == fixing = << >>

\* No namespace import is being separated.
StarsIdle ==
  /\ program = << >>
  /\ stars = << >>

\* No TSFile is asked for its declarations.
LoadIdle ==
  /\ bodies = << >>
  /\ loading = << >>

RestIdle == ManifestIdle /\ FixIdle /\ StarsIdle /\ LoadIdle

ToolsIdle == ResolverIdle /\ SplitterIdle /\ PatcherIdle /\ RestIdle

Packages ==
  [ name    : {"", "name"},
    version : {"", "version"},
    private : BOOLEAN,
    ubik    : BOOLEAN,
    main    : { <<"index", "ts">>, <<"index", "js">> },
    files   : { {} } ]

Init ==
  /\ ToolsIdle
  /\ opts \in [ dryRun : BOOLEAN, keep : BOOLEAN ]
  /\ env \in [ skipFixed : BOOLEAN, forceTS : BOOLEAN ]
  /\ gitTag \in BOOLEAN
  /\ pkg \in Packages
  /\ origPkg = pkg
  /\ args \in ArgLists
  /\ tag = ""
  /\ status = 0
  /\ pc = "start"
  /\ task = [ f \in Formats |-> "idle" ]
  /\ pkgJsonFile = "orig"
  /\ bakFile = "absent"
  /\ rootFiles = {}
  /\ scratch = [ f \in Formats |-> [ dir |-> FALSE, files |-> {} ] ]
  /\ generated = {}
  /\ patched = [ f \in Formats |-> {} ]
  /\ patchWrites = {}
  /\ cmds = {}
  /\ outcome = "none"
  /\ retval = ""
  /\ delivered = ""
  /\ raised = ""
  /\ via = ""
  /\ failedIn = ""

\* The orchestrator at rest, for the specifications of the source tools.
PublisherIdle ==
  /\ opts = [ dryRun |-> TRUE, keep |-> FALSE ]
  /\ env = [ skipFixed |-> FALSE, forceTS |-> FALSE ]
  /\ gitTag = FALSE
  /\ pkg = [ name |-> "name", version |-> "version", private |-> FALSE,
             ubik |-> FALSE, main |-> <<"index", "ts">>, files |-> {} ]
  /\ origPkg = pkg
  /\ args = << >>
  /\ tag = ""
  /\ status = 0
  /\ pc = "start"
  /\ task = [ f \in Formats |-> "idle" ]
  /\ pkgJsonFile = "orig"
  /\ bakFile = "absent"
  /\ rootFiles = {}
  /\ scratch = [ f \in Formats |-> [ dir |-> FALSE, files |-> {} ] ]
  /\ generated = {}
  /\ patched = [ f \in Formats |-> {} ]
  /\ patchWrites = {}
  /\ cmds = {}
  /\ outcome = "none"
  /\ retval = ""
  /\ delivered = ""
  /\ raised = ""
  /\ via = ""
  /\ failedIn = ""

\* releasePackage returns val.
Return(val) ==
  /\ pc' = "done"
  /\ outcome' = "returned"
  /\ retval' = val
  /\ UNCHANGED << delivered, raised, via, failedIn >>

\* releasePackage throws: e was raised in state st, and err is what leaves
\* the handlers on the way to the caller.
Throw(e, err, how, st) ==
  /\ pc' = "done"
  /\ outcome' = "threw"
  /\ delivered' = err
  /\ raised' = e
  /\ via' = how
  /\ failedIn' = st
  /\ UNCHANGED retval

(***************************************************************************)
(* Publisher.releasePackage, up to the registry lookup                     *)
(***************************************************************************)

Release ==
  /\ UNCHANGED toolVars
  /\ pc = "start"
  /\ UNCHANGED << confVars, pkg, args, status, task, diskVars, generated, patched >>
  /\ IF SkipReason(pkg, env.skipFixed) # "go"
       THEN /\ Return("true")
            /\ UNCHANGED << tag, cmds >>
       ELSE LET fresh == ensureFreshTag(pkg, gitTag) IN
            IF pkg.name # "" /\ fresh.throws # ""
              THEN /\ Throw(fresh.throws, fresh.throws, "direct", "ManifestLoaded")
                   /\ UNCHANGED << tag, cmds >>
              ELSE /\ tag' = IF pkg.name # "" THEN fresh.tag ELSE ""
                   /\ cmds' = IF pkg.name # "" THEN cmds \cup {"git rev-parse"} ELSE cmds
                   /\ IF isPublishedArgs(pkg) # ""
                        THEN Throw(isPublishedArgs(pkg), isPublishedArgs(pkg),
                                   "direct", "ManifestLoaded")
                        ELSE /\ pc' = "fetch"
                             /\ UNCHANGED resultVars

\* compileAndPatch up to `await Promise.all`: both emitPatched calls have
\* emptied their scratch directory and started tsc.
StartCompile ==
  /\ pkg' = [ pkg EXCEPT !.ubik = TRUE ]
  /\ scratch' = [ f \in Formats |-> [ dir |-> TRUE, files |-> {} ] ]
  /\ task' = [ f \in Formats |-> "tsc" ]
  /\ pc' = "emit"

\* releasePackage from the registry response to the next await.
Fetched ==
  /\ UNCHANGED toolVars
  /\ pc = "fetch"
  /\ \E st \in Statuses, preOk \in BOOLEAN :
       /\ status' = st
       /\ UNCHANGED << confVars, tag, pkgJsonFile, bakFile, rootFiles,
                       patchWrites, generated, patched >>
       /\ CASE isPublished(st) = "yes" ->
                 /\ Return("undefined")
                 /\ UNCHANGED << pkg, args, task, scratch, cmds >>
            [] isPublished(st) = "NPMErrorCode" ->
                 /\ Throw("NPMErrorCode", "NPMErrorCode", "direct", "ManifestLoaded")
                 /\ UNCHANGED << pkg, args, task, scratch, cmds >>
            [] OTHER ->
                 IF ~opts.dryRun /\ ~preOk
                   THEN \* preliminaryDryRun: the package manager exits non-zero
                        /\ cmds' = cmds \cup {"npm publish --dry-run"}
                        /\ Throw("PreDryRunFailed", "PreDryRunFailed", "direct",
                                 "ManifestLoaded")
                        /\ UNCHANGED << pkg, args, task, scratch >>
                   ELSE /\ cmds' = IF opts.dryRun
                                     THEN IF isTypeScript(pkg, env.forceTS)
                                            THEN cmds \cup {"tsc"} ELSE cmds
                                     ELSE IF isTypeScript(pkg, env.forceTS)
                                            THEN cmds \cup {"npm publish --dry-run", "tsc"}
                                            ELSE cmds \cup {"npm publish --dry-run"}
                        /\ args' = IF opts.dryRun THEN makeSureRunIsDry(args) ELSE args
                        /\ UNCHANGED resultVars
                        /\ IF isTypeScript(pkg, env.forceTS)
                             THEN StartCompile
                             ELSE /\ pc' = "publish"
                                  /\ UNCHANGED << pkg, task, scratch >>

(***************************************************************************)
(* Compiler.emitPatched: one task per format                               *)
(***************************************************************************)

\* The task of format f ends with a rejection.  While releasePackage still
\* awaits Promise.all the rejection goes on to its caller; afterwards nobody
\* observes it.
Reject(f, e, err, how, st) ==
  /\ task' = [ task EXCEPT ![f] = "failed" ]
  /\ IF pc = "emit"
       THEN Throw(e, err, how, st)
       ELSE UNCHANGED << pc, resultVars >>

\* revertable (name, fn) when fn throws e synchronously: onError(name)(e).
OnError(f, e, st, root, gen) ==
  LET r == revert(opts.keep, pkgJsonFile, bakFile, root, gen) IN
  /\ pkgJsonFile' = r.pj
  /\ bakFile' = r.bak
  /\ rootFiles' = r.root
  /\ Reject(f, e, Rethrown(e, r), "revert", st)

\* The task of format f has run to its end.
Settle(f) ==
  /\ task' = [ task EXCEPT ![f] = "done" ]
  /\ pc' = IF pc = "emit" /\ \A g \in Formats \ {f} : task[g] = "done"
             THEN "manifest" ELSE pc
  /\ UNCHANGED resultVars

\* tsc exits; on success the code patcher is constructed and patchAll
\* starts its glob.
TscExit(f) ==
  /\ UNCHANGED toolVars
  /\ pc \in {"emit", "done"}
  /\ task[f] = "tsc"
  /\ UNCHANGED << confVars, pkg, args, tag, status, generated, patched,
                  patchWrites, cmds >>
  /\ \E code \in {0, 1}, emitted \in {{}, AllTscOutputs}, ctorOk \in BOOLEAN :
       IF code # 0
         THEN /\ scratch' = [ scratch EXCEPT ![f].files = emitted ]
              /\ Reject(f, "RunFailed", "RunFailed", "direct", "Compiling")
              /\ UNCHANGED << pkgJsonFile, bakFile, rootFiles >>
         ELSE /\ scratch' = [ scratch EXCEPT ![f].files = AllTscOutputs ]
              /\ IF ctorOk
                   THEN /\ task' = [ task EXCEPT ![f] = "patchCode" ]
                        /\ UNCHANGED << pc, resultVars, pkgJsonFile, bakFile, rootFiles >>
                   ELSE OnError(f, "PatcherFailed", "Patching", rootFiles, generated)

\* Patcher.patchAll after its glob: every matching file of the scratch
\* directory is patched and, unless this is a dry run, written back.
PatchAll(f) ==
  /\ UNCHANGED toolVars
  /\ pc \in {"emit", "done"}
  /\ task[f] \in {"patchCode", "patchTypes"}
  /\ UNCHANGED << confVars, pkg, args, tag, status, generated, cmds,
                  pkgJsonFile, bakFile, rootFiles, scratch >>
  /\ LET ext   == IF task[f] = "patchCode" THEN EmitOptions(f).outputs
                                           ELSE EmitOptions(f).types
         files == { x \in scratch[f].files : EndsWith(x, ext) }
     IN \E done \in SUBSET files, ok \in BOOLEAN :
          /\ ok => done = files
          /\ patched' = [ patched EXCEPT ![f] = @ \cup done ]
          /\ patchWrites' = IF opts.dryRun THEN patchWrites ELSE patchWrites \cup done
          /\ IF ok
               THEN /\ task' = [ task EXCEPT ![f] =
                          IF task[f] = "patchCode" THEN "collectCode" ELSE "collectTypes" ]
                    /\ UNCHANGED << pc, resultVars >>
               ELSE Reject(f, "PatchFailed", "PatchFailed", "direct", "Patching")

\* The scratch extension and the final extension of each collect call.
CollectExts(f, step) ==
  CASE step = "collectCode"     -> << <<"js">>, EmitOptions(f).outputs >>
    [] step = "collectMaps"     -> << <<"js", "map">>, EmitOptions(f).sourceMaps >>
    [] step = "collectTypes"    -> << <<"d", "ts">>, EmitOptions(f).types >>
    [] step = "collectTypeMaps" -> << <<"d", "ts", "map">>, EmitOptions(f).typeMaps >>

\* Compiler.collect after its glob, and emitPatched up to its next await.
\* The loop copies a file into the package root, unlinks the scratch file
\* and records the new path; `bad` is the file at which a forced failure
\* of copyFileSync or of unlinkSync stops it.
Collect(f) ==
  /\ UNCHANGED toolVars
  /\ pc \in {"emit", "done"}
  /\ task[f] \in {"collectCode", "collectMaps", "collectTypes", "collectTypeMaps"}
  /\ UNCHANGED << confVars, pkg, args, tag, status, patched, patchWrites, cmds >>
  /\ LET tempExt == CollectExts(f, task[f])[1]
         outExt  == CollectExts(f, task[f])[2]
         inputs  == { x \in scratch[f].files : EndsWith(x, tempExt) }
         Out(xs) == { replaceExtension(x, tempExt, outExt) : x \in xs }
     IN \E done \in SUBSET inputs :
          /\ generated' = generated \cup Out(done)
          /\ IF done = inputs
               THEN \E ctorOk \in BOOLEAN :
                 CASE task[f] = "collectTypeMaps" ->
                        /\ scratch' = [ scratch EXCEPT ![f] = [ dir |-> FALSE, files |-> {} ] ]
                        /\ rootFiles' = rootFiles \cup Out(done)
                        /\ Settle(f)
                        /\ UNCHANGED << pkgJsonFile, bakFile >>
                   [] task[f] = "collectMaps" /\ ~ctorOk ->
                        /\ scratch' = [ scratch EXCEPT ![f].files = @ \ done ]
                        /\ OnError(f, "PatcherFailed", "Patching",
                                   rootFiles \cup Out(done), generated \cup Out(done))
                   [] OTHER ->
                        /\ scratch' = [ scratch EXCEPT ![f].files = @ \ done ]
                        /\ rootFiles' = rootFiles \cup Out(done)
                        /\ task' = [ task EXCEPT ![f] =
                             CASE task[f] = "collectCode"  -> "collectMaps"
                               [] task[f] = "collectMaps"  -> "patchTypes"
                               [] task[f] = "collectTypes" -> "collectTypeMaps" ]
                        /\ UNCHANGED << pc, resultVars, pkgJsonFile, bakFile >>
               ELSE \E bad \in inputs \ done, op \in {"copy", "unlink"} :
                      /\ scratch' = [ scratch EXCEPT ![f].files = @ \ done ]
                      /\ rootFiles' = rootFiles \cup Out(done) \cup
                           (IF op = "unlink" THEN Out({bad}) ELSE {})
                      /\ Reject(f, "CollectFailed", "CollectFailed", "direct", "Relocating")
                      /\ UNCHANGED << pkgJsonFile, bakFile >>

(***************************************************************************)
(* Compiler.compileAndPatch after Promise.all                              *)
(***************************************************************************)

\* The step that follows one of the two file operations.
AfterPersist(op) == IF op = PersistOrder[1] THEN PersistOrder[2] ELSE "publish"

\* `files` extended before any file was generated, as the oldest Compiler
\* does it.
includeNone(files, gen) == files

\* this.pkg.files = [...this.pkg.files, ...this.generated]
includeGenerated(files, gen) == files \cup gen

\* The manifest object gets its entrypoints and the generated files.
ManifestRewrite ==
  /\ UNCHANGED toolVars
  /\ pc = "manifest"
  /\ pkg' = [ pkg EXCEPT !.files = includeGenerated(@, generated) ]
  /\ pc' = IF opts.dryRun THEN "publish" ELSE PersistOrder[1]
  /\ UNCHANGED << confVars, args, tag, status, task, diskVars, generated,
                  patched, cmds, resultVars >>

\* copyFileSync(package.json, package.json.bak)
Backup ==
  /\ UNCHANGED toolVars
  /\ pc = "backup"
  /\ UNCHANGED << confVars, pkg, args, tag, status, task, pkgJsonFile, rootFiles,
                  scratch, patchWrites, generated, patched, cmds >>
  /\ \E ok \in BOOLEAN :
       IF ok
         THEN /\ bakFile' = pkgJsonFile
              /\ pc' = AfterPersist("backup")
              /\ UNCHANGED resultVars
         ELSE /\ Throw("BackupFailed", "BackupFailed", "direct", "ManifestRewritten")
              /\ UNCHANGED bakFile

\* writeFileSync(package.json, this.pkg.stringified)
WriteManifest ==
  /\ UNCHANGED toolVars
  /\ pc = "write"
  /\ UNCHANGED << confVars, pkg, args, tag, status, task, bakFile, rootFiles,
                  scratch, patchWrites, generated, patched, cmds >>
  /\ \E ok \in BOOLEAN :
       IF ok
         THEN /\ pkgJsonFile' = "patched"
              /\ pc' = AfterPersist("write")
              /\ UNCHANGED resultVars
         ELSE /\ Throw("WriteFailed", "WriteFailed", "direct", "ManifestRewritten")
              /\ pkgJsonFile' \in {pkgJsonFile, "patched"}

(***************************************************************************)
(* Publisher.releasePackage: publish, tag, revert                          *)
(***************************************************************************)

\* The commands that performRelease and tagRelease execute, in order, under
\* UBIK_NO_TAG (noTag) and UBIK_NO_PUSH (noPush).
ReleaseCommands(dryRun, publishArgs, theTag, noTag, noPush) ==
  IF ~ShouldPublish(dryRun) THEN << >>
  ELSE << IF Includes(publishArgs, "--dry-run")
            THEN "npm publish --no-git-checks --dry-run"
            ELSE "npm publish --no-git-checks" >>
       \o (IF ShouldTag(publishArgs, theTag) /\ ~noTag
             THEN <<"git tag">> \o (IF noPush THEN << >> ELSE <<"git push">>)
             ELSE << >>)

Publish ==
  /\ UNCHANGED toolVars
  /\ pc = "publish"
  /\ UNCHANGED << confVars, pkg, args, tag, status, task, scratch, patchWrites,
                  generated, patched >>
  /\ \E noTag \in BOOLEAN, noPush \in BOOLEAN :
       LET run == ReleaseCommands(opts.dryRun, args, tag, noTag, noPush)
           r   == revert(opts.keep, pkgJsonFile, bakFile, rootFiles, generated)
       IN \E failAt \in 0..Len(run) :
            /\ cmds' = cmds \cup
                 { run[i] : i \in 1..(IF failAt = 0 THEN Len(run) ELSE failAt) }
            /\ pkgJsonFile' = r.pj
            /\ bakFile' = r.bak
            /\ rootFiles' = r.root
            /\ IF failAt # 0
                 THEN Throw("ReleaseFailed", Rethrown("ReleaseFailed", r),
                            "revert", "Publishing")
                 ELSE IF r.throws # ""
                   THEN Throw(r.throws, r.throws, "direct", "Publishing")
                   ELSE Return("pkg")

Next ==
  \/ Release
  \/ Fetched
  \/ \E f \in Formats : TscExit(f)
  \/ \E f \in Formats : PatchAll(f)
  \/ \E f \in Formats : Collect(f)
  \/ ManifestRewrite
  \/ Backup
  \/ WriteManifest
  \/ Publish

Spec == Init /\ [][Next]_allVars

TypeOK ==
  /\ pc \in {"start", "fetch", "emit", "manifest", "backup", "write", "publish", "done"}
  /\ \A f \in Formats : task[f] \in
       {"idle", "tsc", "patchCode", "collectCode", "collectMaps", "patchTypes",
        "collectTypes", "collectTypeMaps", "done", "failed"}
  /\ outcome \in {"none", "returned", "threw"}
  /\ pkgJsonFile \in {"orig", "patched"}
  /\ bakFile \in {"absent", "orig", "patched"}
  /\ generated \subseteq { <<m>> \o e : m \in Mods, e \in { ExtOrder[i] : i \in 1..Len(ExtOrder) } }

(***************************************************************************)
(* Properties                                                              *)
(***************************************************************************)

\* The package directory as it was before the run.
Pristine == pkgJsonFile = "orig" /\ bakFile = "absent" /\ rootFiles = {}

PublishCommands == {"npm publish --no-git-checks", "npm publish --no-git-checks --dry-run"}

\* C1: when releasePackage throws an error that was raised while patching
\* the compiled output or while collecting files into the package root, the
\* package directory shows no difference to its state before the run:
\* package.json has its original content, there is no backup left and no
\* generated file remains.
C1_AtomicOnPatchOrRelocateFailure ==
  (outcome = "threw" /\ failedIn \in {"Patching", "Relocating"}) => Pristine

\* C2: when the error that releasePackage throws is the non-zero exit of a
\* compiler invocation, the revert sequence has run before the error
\* reached the caller.
C2_CompileFailureReverts ==
  (outcome = "threw" /\ raised = "RunFailed") => via = "revert"

\* C3: when an exception has triggered the revert on its way to the caller
\* of releasePackage, the error the caller receives is that exception and
\* not an error produced by the revert.
C3_OriginalErrorDelivered ==
  (outcome = "threw" /\ via = "revert") => delivered = raised

\* C3 witness: a patcher failed, files had been generated, the revert
\* deleted them and the caller has the error.
C3_Witness ==
  /\ outcome = "threw"
  /\ via = "revert"
  /\ failedIn = "Patching"
  /\ ~opts.keep
  /\ generated # {}
  /\ rootFiles = {}

\* C4: in a dry run nothing is written: no generated file appears in the
\* package root, package.json.bak is not created, package.json is not
\* rewritten and the patchers write no file.
C4_DryRunWritesNothing ==
  opts.dryRun => (Pristine /\ patchWrites = {})

\* C5: a run on a non-private manifest that carries the `ubik` marker, with
\* UBIK_SKIP_FIXED unset, runs no compiler, generates no file, publishes
\* nothing and ends with an error.
C5_MarkedManifestRefused ==
  (origPkg.ubik /\ ~origPkg.private /\ ~env.skipFixed) =>
    /\ "tsc" \notin cmds
    /\ cmds \cap PublishCommands = {}
    /\ rootFiles = {}
    /\ pc = "done" => outcome = "threw"

C7_BackupBeforeWrite ==
  (~opts.dryRun /\ pkgJsonFile # "orig") => bakFile = "orig"

\* C7 witness: the rewritten manifest is on disk next to its backup.
C7_Witness ==
  /\ ~opts.dryRun
  /\ pc = "publish"
  /\ pkgJsonFile = "patched"
  /\ bakFile = "orig"

\* C8: the registry status gates the run.  200: releasePackage returns
\* without error, no compiler and no publish command has run.  404: the run
\* goes on (the preliminary dry run has been made, or the arguments have
\* been made dry).  Any other status: releasePackage throws NPMErrorCode
\* and no compiler has run.
C8_RegistryGate ==
  /\ status = 200 =>
       /\ outcome = "returned" /\ retval = "undefined"
       /\ "tsc" \notin cmds
       /\ cmds \cap (PublishCommands \cup {"npm publish --dry-run"}) = {}
  /\ status = 404 =>
       /\ ~(outcome = "returned" /\ retval = "undefined")
       /\ delivered # "NPMErrorCode"
       /\ IF opts.dryRun THEN Includes(args, "--dry-run")
                         ELSE "npm publish --dry-run" \in cmds
  /\ status \notin {0, 200, 404} =>
       /\ outcome = "threw" /\ delivered = "NPMErrorCode"
       /\ "tsc" \notin cmds
       /\ cmds \cap PublishCommands = {}

\* C8 witness: the registry answered with an unexpected status.
C8_Witness ==
  /\ status \notin {0, 200, 404}
  /\ pc = "done"

\* C9: when the git tag of the package's name and version exists,
\* performRelease is not run.
C9_ExistingTagSkipsPublish ==
  (gitTag /\ origPkg.name # "") => cmds \cap PublishCommands = {}

\* C10: in a dry run neither performRelease nor `git tag` nor `git push`
\* is executed, and from the registry gate on the publish arguments carry
\* --dry-run.
C10_DryRunNeverPublishes ==
  opts.dryRun =>
    /\ cmds \cap (PublishCommands \cup {"git tag", "git push", "npm publish --dry-run"}) = {}
    /\ pc \in {"emit", "manifest", "publish"} => Includes(args, "--dry-run")

\* C10 witness: a dry run of a TypeScript package went through compilation
\* and the publish step and returned the package.
C10_Witness ==
  /\ opts.dryRun
  /\ outcome = "returned"
  /\ retval = "pkg"
  /\ pkg.files # {}

(***************************************************************************)
(* The Resolver (src/tool/tool-resolve.mjs)                                *)
(*                                                                         *)
(* A path is the sequence of its segments and a segment the sequence of    *)
(* its dot-separated components: "./foo/index.ts" is                       *)
(* << <<"", "">>, <<"foo">>, <<"index", "ts">> >>. The string operations   *)
(* of the code (startsWith, endsWith, appending ".ts" or "/index") are     *)
(* computed on that form.                                                  *)
(***************************************************************************)

\* The segments "." and "..".
Dot == <<"", "">>

DotDot == <<"", "", "">>

\* p.startsWith('.')
StartsWithDot(p) == Len(p) > 0 /\ Len(p[1]) >= 2 /\ p[1][1] = ""

\* p.endsWith('.' + ext)
HasExt(p, ext) ==
  /\ Len(p) > 0
  /\ Len(p[Len(p)]) >= 2
  /\ p[Len(p)][Len(p[Len(p)])] = ext

\* `${p}.${ext}`
AddExt(p, ext) == [ p EXCEPT ![Len(p)] = Append(@, ext) ]

\* `${p}/${segment}`
Sub(p, segment) == Append(p, segment)

\* path.dirname of a path relative to the root
dirname(p) == IF Len(p) <= 1 THEN << Dot >> ELSE SubSeq(p, 1, Len(p) - 1)

\* path.resolve followed by path.relative to the root: "." is dropped and
\* ".." takes the last segment away, or stays when it leaves the root.
RECURSIVE Normalize(_, _)
Normalize(segments, acc) ==
  IF segments = << >> THEN acc
  ELSE LET h == Head(segments) IN
       IF h = Dot THEN Normalize(Tail(segments), acc)
       ELSE IF h = DotDot
         THEN IF acc # << >> /\ acc[Len(acc)] # DotDot
                THEN Normalize(Tail(segments), SubSeq(acc, 1, Len(acc) - 1))
                ELSE Normalize(Tail(segments), Append(acc, DotDot))
         ELSE Normalize(Tail(segments), Append(acc, h))

\* The local `path` of Resolver.resolve.
PathOf(source, target) ==
  LET joined == Normalize(dirname(source) \o target, << >>)
      path   == IF joined = << >> THEN << Dot >> ELSE joined
  IN  IF Len(path) > 1 /\ path[1] = Dot THEN Tail(path) ELSE path

\* x instanceof File: File, JSONFile and TSFile, but not Directory.
IsFile(class) == class \in {"File", "JSONFile", "TSFile"}

\* The class of Entry that Resolver.load makes of a directory entry.
EntryClass(p, what) ==
  IF what = "dir" THEN "Directory"
  ELSE IF HasExt(p, "ts") THEN "TSFile"
  ELSE IF HasExt(p, "json") THEN "JSONFile"
  ELSE "File"

\* Paths that load passes over: node_modules and what is below it.
Skipped(p) == \E i \in 1..Len(p) : p[i] = <<"node_modules">>

\* Resolver.load() of the root: every Directory loads its own entries.
load(t) ==
  [ p \in { q \in DOMAIN t : t[q] # "absent" /\ ~Skipped(q) } |-> EntryClass(p, t[p]) ]

Null == [ NoResult EXCEPT !.kind = "null" ]

Thrown(error) == [ NoResult EXCEPT !.kind = "threw", !.error = error ]

Entry(idx, key) == [ NoResult EXCEPT !.kind = "entry", !.path = key, !.class = idx[key] ]

\* The same choice with the directory index tried before the flat file.
PickDirFirst(idx, path) ==
  IF path \in DOMAIN idx /\ IsFile(idx[path]) /\ idx[path] # "TSFile" THEN "plain"
  ELSE IF Sub(path, <<"index", "ts">>) \in DOMAIN idx THEN "directory"
  ELSE IF AddExt(path, "ts") \in DOMAIN idx THEN "module"
  ELSE "none"

\* Which of the three lookups of Resolver.resolve answers for `path`.
Pick(idx, path) ==
  IF path \in DOMAIN idx /\ IsFile(idx[path]) /\ idx[path] # "TSFile" THEN "plain"
  ELSE IF AddExt(path, "ts") \in DOMAIN idx THEN "module"
  ELSE IF Sub(path, <<"index", "ts">>) \in DOMAIN idx THEN "directory"
  ELSE "none"

\* Resolver.resolve(source, target)
RECURSIVE resolve(_, _, _)
resolve(idx, source, target) ==
  IF ~StartsWithDot(target) THEN Null
  ELSE IF HasExt(target, "ts") THEN Thrown("imports ending in .ts")
  ELSE LET path  == PathOf(source, target)
           which == Pick(idx, path)
       IN  CASE which = "plain"     -> Entry(idx, path)
             [] which = "module"    -> Entry(idx, AddExt(path, "ts"))
             [] which = "directory" -> resolve(idx, source, Sub(target, <<"index">>))
             [] OTHER               -> Thrown("not found")

\* Directory entries that are tried; one below another needs it to be a
\* directory.
TreePaths ==
  { << <<"foo">> >>,
    << <<"foo", "ts">> >>,
    << <<"foo">>, <<"index", "ts">> >>,
    << <<"data", "json">> >>,
    << <<"node_modules">> >>,
    << <<"node_modules">>, <<"dep", "ts">> >> }

Trees ==
  { t \in [ TreePaths -> {"absent", "file", "dir"} ] :
      /\ \A p \in TreePaths :
           Len(p) > 1 /\ t[p] # "absent" => t[SubSeq(p, 1, Len(p) - 1)] = "dir"
      /\ t[<< <<"data", "json">> >>] # "dir"
      /\ t[<< <<"node_modules">> >>] # "file"
      /\ t[<< <<"node_modules">>, <<"dep", "ts">> >>] # "dir" }

\* Importing modules: one in the root, one in the directory foo.
Sources == { << <<"fixture1">> >>, << <<"foo">>, <<"bar", "ts">> >> }

\* Specifiers that are resolved.
Specifiers ==
  { << Dot, <<"foo">> >>,
    << Dot, <<"foo">>, <<"index">> >>,
    << Dot, <<"foo", "ts">> >>,
    << <<"foo">> >>,
    << Dot, <<"data", "json">> >>,
    << Dot, <<"missing">> >>,
    << DotDot, <<"foo">> >>,
    << Dot, <<"node_modules">>, <<"dep">> >>,
    << Dot >> }

\* resolver.load()
Load ==
  /\ ~loaded
  /\ index' = load(tree)
  /\ loaded' = TRUE
  /\ UNCHANGED << tree, resolved >>
  /\ UNCHANGED << vars, splitVars, patcherVars, restVars >>

\* resolver.resolve(source, target), whatever comes of it.
Resolve ==
  /\ \E source \in Sources, target \in Specifiers :
       resolved' = [ source |-> source, target |-> target, loaded |-> loaded,
                     result |-> resolve(index, source, target) ]
  /\ UNCHANGED << tree, index, loaded >>
  /\ UNCHANGED << vars, splitVars, patcherVars, restVars >>

ResolveInit ==
  /\ PublisherIdle
  /\ SplitterIdle
  /\ PatcherIdle
  /\ RestIdle
  /\ tree \in Trees
  /\ index = << >>
  /\ loaded = FALSE
  /\ resolved = NoCall

ResolveNext ==
  \/ Load
  \/ Resolve

ResolveSpec == ResolveInit /\ [][ResolveNext]_allVars

\* The call recorded in `resolved` was made on the index as it is now.
OnThisIndex == resolved.result.kind # "none" /\ resolved.loaded = loaded

\* C14: when a flat module file foo.ts and a directory index foo/index.ts
\* are both indexed, resolve(src, './foo') returns the Entry of the flat file
\* foo.ts, never the index of the directory.
C14_FlatFileBeatsDirectoryIndex ==
  LET path == PathOf(resolved.source, resolved.target)
      flat == AddExt(path, "ts")
  IN  ( /\ OnThisIndex
        /\ StartsWithDot(resolved.target)
        /\ ~HasExt(resolved.target, "ts")
        /\ flat \in DOMAIN index
        /\ index[flat] = "TSFile"
        /\ Sub(path, <<"index", "ts">>) \in DOMAIN index )
      => /\ resolved.result.kind = "entry"
         /\ resolved.result.path = flat
         /\ resolved.result.class = "TSFile"

\* './foo' was resolved from the root while foo.ts and foo/index.ts were both
\* indexed, and the answer was foo.ts.
C14_Witness ==
  /\ OnThisIndex
  /\ resolved.source = << <<"fixture1">> >>
  /\ resolved.target = << Dot, <<"foo">> >>
  /\ << <<"foo", "ts">> >> \in DOMAIN index
  /\ index[<< <<"foo", "ts">> >>] = "TSFile"
  /\ << <<"foo">>, <<"index", "ts">> >> \in DOMAIN index
  /\ resolved.result.path = << <<"foo", "ts">> >>

\* C15: resolve never hands a Directory to its caller: every result that is
\* not null is a file Entry, and a specifier that names a directory is
\* answered with the index module of that directory.
C15_OnlyLeafEntries ==
  LET path == PathOf(resolved.source, resolved.target) IN
  (OnThisIndex /\ resolved.result.kind = "entry")
    => /\ IsFile(resolved.result.class)
       /\ Pick(index, path) = "directory"
            => resolved.result.path = Sub(path, <<"index", "ts">>)

(***************************************************************************)
(* The splitter (src/task/split.mjs) and the extractor that feeds it       *)
(* (src/tool/tool-parse.mjs)                                               *)
(*                                                                         *)
(* A JavaScript Map is the sequence of its <<key, value>> entries in       *)
(* insertion order. Maps are objects: `heap` holds them by address, and a  *)
(* map of maps holds the addresses of its inner maps, so that a copy and   *)
(* an alias of a map are different things.                                 *)
(***************************************************************************)

\* Map.prototype.has, get, set and delete
MapHas(m, k) == \E i \in 1..Len(m) : m[i][1] = k

MapGet(m, k) == m[CHOOSE i \in 1..Len(m) : m[i][1] = k][2]

MapSet(m, k, v) ==
  IF MapHas(m, k)
    THEN [ i \in 1..Len(m) |-> IF m[i][1] = k THEN <<k, v>> ELSE m[i] ]
    ELSE Append(m, <<k, v>>)

MapDelete(m, k) == SelectSeq(m, LAMBDA e : e[1] # k)

Keys(m) == { m[i][1] : i \in 1..Len(m) }

\* getDefault(map, key, new Map()): the address of map.get(key), which is
\* set to a new empty Map first if the key is missing.
getDefault(h, map, key) ==
  IF MapHas(h[map], key)
    THEN [ heap |-> h, addr |-> MapGet(h[map], key) ]
    ELSE [ heap |-> Append([ h EXCEPT ![map] = Append(@, <<key, Len(h) + 1>>) ], << >>),
           addr |-> Len(h) + 1 ]

\* addImport and addReexport for a declaration with one specifier: the inner
\* map of the source gets bound name -> name in the source module.
addImport(h, map, source, bound, name) ==
  LET d == getDefault(h, map, source) IN
  [ d.heap EXCEPT ![d.addr] = MapSet(@, bound, name) ]

\* A clone that copies the outer Map but shares the inner ones.
cloneMapShallow(h, oldMap) == Append(h, h[oldMap])

\* cloneMap(oldMap): a new Map at address Len(h) + 1 that holds, for every
\* key, a new Map with the entries of the old inner one.
cloneMap(h, oldMap) ==
  LET old == h[oldMap]
      n   == Len(h)
  IN  h \o << [ i \in 1..Len(old) |-> << old[i][1], n + 1 + i >> ] >>
        \o [ i \in 1..Len(old) |-> h[old[i][2]] ]

\* The maps of maps at address a, with the inner maps in place of their
\* addresses.
Deref(h, a) == [ i \in 1..Len(h[a]) |-> << h[a][i][1], h[h[a][i][2]] >> ]

\* The same without the removal from the value map.
changeToTypeKeepValue(h, target, alias, name, newValues, newTypes) ==
  LET d == getDefault(h, newTypes, target) IN
  [ d.heap EXCEPT ![d.addr] = MapSet(@, name, alias) ]

\* "changing to type": newValues.get(target).delete(name), then
\* getDefault(newTypes, target, new Map()).set(name, alias)
changeToType(h, target, alias, name, newValues, newTypes) ==
  LET values == MapGet(h[newValues], target)
      h1 == [ h EXCEPT ![values] = MapDelete(@, name) ]
      d  == getDefault(h1, newTypes, target)
  IN  [ d.heap EXCEPT ![d.addr] = MapSet(@, name, alias) ]

\* The loop of updateImportExport over specifiers[i..]: [heap, thrown].
RECURSIVE updateSpecifiers(_, _, _, _, _, _, _)
updateSpecifiers(h, exps, target, specifiers, i, newValues, newTypes) ==
  IF i > Len(specifiers) THEN [ heap |-> h, thrown |-> "" ]
  ELSE LET alias == specifiers[i][1]
           name  == specifiers[i][2]
       IN  IF name \in exps.exports
             THEN updateSpecifiers(h, exps, target, specifiers, i + 1, newValues, newTypes)
           ELSE IF name \in exps.exportTypes
             THEN updateSpecifiers(changeToType(h, target, alias, name, newValues, newTypes),
                                   exps, target, specifiers, i + 1, newValues, newTypes)
           ELSE [ heap |-> h, thrown |-> "not found in target" ]

\* A resolveTarget that takes a failed resolution for an external package.
resolveTargetLenient(idx, path, target) ==
  LET res == resolve(idx, path, target) IN
  IF res.kind = "threw" THEN Null ELSE res

\* resolveTarget(resolver, path, target): the result of resolve, or the
\* error of an unresolved relative import.
resolveTarget(idx, path, target) ==
  LET res == resolve(idx, path, target) IN
  IF res.kind = "null" /\ StartsWithDot(target)
    THEN Thrown("failed resolving")
    ELSE res

\* updateImportExport(mode, resolver, path, target, specifiers, newValues,
\* newTypes): [heap, thrown]. An entry that is no TSFile has no `exports`,
\* and reading resolved.exports.has fails on it.
updateImportExport(h, idx, exps, path, target, specifiers, newValues, newTypes) ==
  LET res == resolveTarget(idx, path, target) IN
  IF res.kind = "threw" THEN [ heap |-> h, thrown |-> res.error ]
  ELSE IF res.kind = "null" THEN [ heap |-> h, thrown |-> "" ]
  ELSE IF HasExt(res.path, "json") THEN [ heap |-> h, thrown |-> "" ]
  ELSE IF specifiers = << >> THEN [ heap |-> h, thrown |-> "" ]
  ELSE IF res.class # "TSFile" THEN [ heap |-> h, thrown |-> "TypeError" ]
  ELSE updateSpecifiers(h, exps[res.path], target, specifiers, 1, newValues, newTypes)

\* Names that the module under split binds.
Names == {"Foo", "Bar"}

\* Names that it asks of its targets: mixed.ts exports the value Foo and the
\* type Bar, and nothing called Quux.
Exported == {"Foo", "Bar", "Quux"}

MixedExports == [ exports |-> {"Foo"}, exportTypes |-> {"Bar"} ]

\* Specifiers bound in the import and re-export declarations of the module.
MaxSpecifiers == 2

\* The module that is split, and what the Resolver has beside it: the
\* TypeScript module mixed.ts and the data file data.json.
ModulePath == << <<"fixture0", "ts">> >>

MixedPath == << <<"mixed", "ts">> >>

SplitTree ==
  [ p \in TreePaths \cup { MixedPath } |->
      IF p \in { MixedPath, << <<"data", "json">> >> } THEN "file" ELSE "absent" ]

\* './mixed', './missing', 'pkg' and './data.json'
SplitTargets ==
  { << Dot, <<"mixed">> >>,
    << Dot, <<"missing">> >>,
    << <<"pkg">> >>,
    << Dot, <<"data", "json">> >> }

\* The four maps of a TSFile as getImportsExports makes them, in the order
\* in which separateTypeImports goes through them.
MapNames == << "imports", "importTypes", "reexports", "reexportTypes" >>

NewFile == [ imports |-> 1, importTypes |-> 2, reexports |-> 3, reexportTypes |-> 4 ]

\* All names bound in the inner maps of the map at address a.
BoundIn(h, a) == UNION { Keys(h[h[a][i][2]]) : i \in 1..Len(h[a]) }

\* Number of specifiers in the map at address a.
Count(h, a) ==
  LET RECURSIVE sum(_)
      sum(i) == IF i > Len(h[a]) THEN 0 ELSE Len(h[h[a][i][2]]) + sum(i + 1)
  IN  sum(1)

Specified ==
  Count(heap, file.imports) + Count(heap, file.importTypes)
    + Count(heap, file.reexports) + Count(heap, file.reexportTypes)

\* The maps are filled in the order of MapNames: a map takes a declaration
\* while the maps after it are empty (the order of declarations that go to
\* different maps changes nothing but the addresses).
Fillable(k) == \A l \in (k + 1)..4 : heap[file[MapNames[l]]] = << >>

\* getImportsExports meets `import { name as bound } from target` or
\* `import type { name as bound } from target`. A module binds a name once.
ImportDeclaration ==
  /\ patch = "parsing"
  /\ Specified < MaxSpecifiers
  /\ \E k \in {1, 2}, target \in SplitTargets, bound \in Names, name \in Exported :
       /\ Fillable(k)
       /\ bound \notin BoundIn(heap, file.imports) \cup BoundIn(heap, file.importTypes)
       /\ heap' = addImport(heap, file[MapNames[k]], target, bound, name)
  /\ UNCHANGED << exportsOf, file, given, new, cursor, patch, resolverVars, patcherVars, restVars >>
  /\ UNCHANGED vars

\* getImportsExports meets `export { name as bound } from target` or
\* `export type { name as bound } from target`. A module exports a name once.
ExportNamedDeclaration ==
  /\ patch = "parsing"
  /\ Specified < MaxSpecifiers
  /\ \E k \in {3, 4}, target \in SplitTargets, bound \in Names, name \in Exported :
       /\ Fillable(k)
       /\ bound \notin BoundIn(heap, file.reexports) \cup BoundIn(heap, file.reexportTypes)
       /\ heap' = addImport(heap, file[MapNames[k]], target, bound, name)
  /\ UNCHANGED << exportsOf, file, given, new, cursor, patch, resolverVars, patcherVars, restVars >>
  /\ UNCHANGED vars

\* The four maps as the heap holds them.
Snapshot(h, f) ==
  [ imports       |-> Deref(h, f.imports),
    importTypes   |-> Deref(h, f.importTypes),
    reexports     |-> Deref(h, f.reexports),
    reexportTypes |-> Deref(h, f.reexportTypes) ]

\* TSFile.patch() calls separateTypeImports(this), which starts by cloning
\* the four maps.
Patch ==
  /\ patch = "parsing"
  /\ LET h1 == cloneMap(heap, file.imports)
         h2 == cloneMap(h1, file.importTypes)
         h3 == cloneMap(h2, file.reexports)
     IN  /\ heap' = cloneMap(h3, file.reexportTypes)
         /\ new' = [ imports       |-> Len(heap) + 1,
                     importTypes   |-> Len(h1) + 1,
                     reexports     |-> Len(h2) + 1,
                     reexportTypes |-> Len(h3) + 1 ]
  /\ given' = [ file |-> file, maps |-> Snapshot(heap, file) ]
  /\ cursor' = << "imports", 1 >>
  /\ patch' = "updating"
  /\ UNCHANGED << exportsOf, file, resolverVars, patcherVars, restVars >>
  /\ UNCHANGED vars

\* The type map that goes with the value map of a loop of separateTypeImports.
MovesTo == [ imports |-> "importTypes", reexports |-> "reexportTypes" ]

\* One turn of `for (const [target, specifiers] of imports.entries())` or of
\* the same loop over reexports: updateImportExport for one target.
Update ==
  /\ patch = "updating"
  /\ cursor[2] <= Len(heap[file[cursor[1]]])
  /\ LET declaration == heap[file[cursor[1]]][cursor[2]]
         u == updateImportExport(heap, index, exportsOf, ModulePath, declaration[1],
                                 heap[declaration[2]], new[cursor[1]],
                                 new[MovesTo[cursor[1]]])
     IN  /\ heap' = u.heap
         /\ IF u.thrown # ""
              THEN patch' = u.thrown /\ cursor' = cursor
              ELSE patch' = patch /\ cursor' = << cursor[1], cursor[2] + 1 >>
  /\ UNCHANGED << exportsOf, file, given, new, resolverVars, patcherVars, restVars >>
  /\ UNCHANGED vars

\* A loop is over: the loop over reexports follows the one over imports, and
\* after it separateTypeImports returns and patch assigns the new maps to the
\* TSFile.
LoopDone ==
  /\ patch = "updating"
  /\ cursor[2] > Len(heap[file[cursor[1]]])
  /\ IF cursor[1] = "imports"
       THEN /\ cursor' = << "reexports", 1 >>
            /\ UNCHANGED << file, patch >>
       ELSE /\ file' = new
            /\ patch' = "patched"
            /\ cursor' = cursor
  /\ UNCHANGED << exportsOf, heap, given, new, resolverVars, patcherVars, restVars >>
  /\ UNCHANGED vars

SplitInit ==
  /\ PublisherIdle
  /\ PatcherIdle
  /\ RestIdle
  /\ tree = SplitTree
  /\ index = load(SplitTree)
  /\ loaded = TRUE
  /\ resolved = NoCall
  /\ exportsOf = [ p \in { MixedPath } |-> MixedExports ]
  /\ heap = << << >>, << >>, << >>, << >> >>
  /\ file = NewFile
  /\ given = [ file |-> NewFile, maps |-> Snapshot(heap, NewFile) ]
  /\ new = NewFile
  /\ cursor = << "imports", 1 >>
  /\ patch = "parsing"

SplitNext ==
  \/ ImportDeclaration
  \/ ExportNamedDeclaration
  \/ Patch
  \/ Update
  \/ LoopDone

SplitSpec == SplitInit /\ [][SplitNext]_allVars

\* The names bound under `target` in a map of maps, none if it has no such key.
BoundUnder(m, target) == IF MapHas(m, target) THEN Keys(MapGet(m, target)) ELSE {}

\* The maps of the TSFile after patch.
Split == Snapshot(heap, file)

\* C11: after a module is split, for every import target, every bound name
\* that was in the original imports[target] is in exactly one of the new
\* imports[target] and importTypes[target].
C11_BoundNamesPartitioned ==
  patch = "patched" =>
    \A target \in Keys(given.maps.imports) :
      \A bound \in BoundUnder(given.maps.imports, target) :
        (bound \in BoundUnder(Split.imports, target))
          <=> (bound \notin BoundUnder(Split.importTypes, target))

\* A module was split, and of two names that it imported from one target one
\* is now a type import and the other still a value import.
C11_Witness ==
  /\ patch = "patched"
  /\ \E target \in Keys(given.maps.imports) :
       \E moved, kept \in BoundUnder(given.maps.imports, target) :
         /\ moved \in BoundUnder(Split.importTypes, target)
         /\ moved \notin BoundUnder(Split.imports, target)
         /\ kept \in BoundUnder(Split.imports, target)

\* The targets of a map of maps that are relative and that nothing in the
\* index answers to.
Unresolvable(m) ==
  { target \in Keys(m) :
      StartsWithDot(target) /\ Pick(index, PathOf(ModulePath, target)) = "none" }

\* The map of maps binds, under a target that is a module of the index, a
\* name that the module exports neither as a value nor as a type.
BindsUnexported(m) ==
  \E target \in Keys(m) :
    LET path == AddExt(PathOf(ModulePath, target), "ts") IN
    /\ StartsWithDot(target)
    /\ Pick(index, PathOf(ModulePath, target)) = "module"
    /\ \E i \in 1..Len(MapGet(m, target)) :
         MapGet(m, target)[i][2] \notin exportsOf[path].exports \cup exportsOf[path].exportTypes

\* patch() is over, one way or the other.
PatchOver == patch \notin { "", "parsing", "updating" }

\* C12: splitting fails for a module that imports or re-exports values from a
\* relative target that cannot be resolved, and for a module that imports or
\* re-exports as a value a name that its existing target exports neither as
\* a value nor as a type.
C12_FatalOnMissing ==
  (/\ PatchOver
   /\ \/ Unresolvable(given.maps.imports) \cup Unresolvable(given.maps.reexports) # {}
      \/ BindsUnexported(given.maps.imports)
      \/ BindsUnexported(given.maps.reexports))
    => patch \in { "not found", "not found in target" }

\* Splitting failed on a re-export from a target that cannot be resolved,
\* after the imports of the module went through.
C12_Witness ==
  /\ patch = "not found"
  /\ Unresolvable(given.maps.reexports) # {}
  /\ given.maps.imports # << >>

\* C13: separateTypeImports leaves the four maps it was given as they were,
\* inner maps included, while it runs, when it has returned and when it has
\* thrown.
C13_GivenMapsUntouched ==
  patch # "parsing" => Snapshot(heap, given.file) = given.maps

\* separateTypeImports moved an import to its new type map and then threw.
C13_Witness ==
  /\ patch = "not found in target"
  /\ Deref(heap, new.importTypes) # given.maps.importTypes
  /\ Deref(heap, new.imports) # given.maps.imports

(***************************************************************************)
(* The output patchers (src/src/Patcher.mjs)                               *)
(*                                                                         *)
(* A file is the sequence of the nodes of its syntax tree that the         *)
(* patchers look at; a specifier is a path as above, so that               *)
(* startsWith('./'), endsWith(patchExt) and `${value}${patchExt}` are      *)
(* computed on it.                                                         *)
(***************************************************************************)

\* An expression: a string literal, a literal that is no string, something
\* computed such as './lib' + dynamic, or none (`source` of a declaration
\* that has no `from`).
StringLiteral(value) == [ type |-> "Literal", string |-> TRUE, value |-> value ]

NumberLiteral == [ type |-> "Literal", string |-> FALSE, value |-> << >> ]

Computed == [ type |-> "BinaryExpression", string |-> FALSE, value |-> << >> ]

NoSource == [ type |-> "null", string |-> FALSE, value |-> << >> ]

\* A node with its callee (the name of the identifier called), its source
\* and its arguments.
Node(type, callee, src, arguments) ==
  [ type |-> type, importKind |-> "value", callee |-> callee,
    source |-> src, arguments |-> arguments ]

esmDeclarationsToPatch ==
  { "ImportDeclaration", "ExportDeclaration", "ImportAllDeclaration",
    "ExportAllDeclaration", "ExportNamedDeclaration" }

\* The default patchExt of each class, as the components after each dot.
PatchExt ==
  [ MJS |-> <<"dist", "mjs">>, MTS |-> <<"dist", "d", "mts">>,
    CJS |-> <<"dist", "cjs">>, CTS |-> <<"dist", "d", "cts">> ]

\* value.startsWith('./') || value.startsWith('../')
isRelative(value) == Len(value) >= 2 /\ value[1] \in { Dot, DotDot }

\* value.endsWith(ext), ext being a dot and the components of ext
endsWith(value, ext) ==
  /\ Len(value) > 0
  /\ LET last == value[Len(value)] IN
     /\ Len(last) > Len(ext)
     /\ SubSeq(last, Len(last) - Len(ext) + 1, Len(last)) = ext

\* `${value}${ext}`
appendExt(value, ext) == [ value EXCEPT ![Len(value)] = @ \o ext ]

\* source?.value, or source.value, is truthy
HasValue(expr) == expr.type = "Literal" /\ expr.string /\ expr.value # << >>

\* patchDeclaration of MJSPatcher.patch
patchDeclaration(node, patchExt) ==
  IF /\ HasValue(node.source)
     /\ isRelative(node.source.value)
     /\ ~endsWith(node.source.value, patchExt)
    THEN [ node EXCEPT !.source.value = appendExt(@, patchExt) ]
    ELSE node

\* patchExpression of MJSPatcher.patch
patchExpression(node, patchExt) ==
  IF HasValue(node.source) /\ isRelative(node.source.value)
    THEN [ node EXCEPT !.source.value = appendExt(@, patchExt) ]
    ELSE node

\* text.replace(sourceMapRegExp, `$1${patchExt}$3`) on the URL of a source
\* map comment. /(.+)(.js)(.map)/ takes any character for each dot: it
\* matches x.js.map, and also x.mjs.map and x.cjs.map, where it leaves the
\* dot before mjs or cjs in $1.
replaceJS(value, patchExt) ==
  LET last == value[Len(value)]
      n    == Len(last)
  IN  IF n >= 3 /\ last[n] = "map" /\ last[n - 1] = "js"
        THEN [ value EXCEPT ![Len(value)] = SubSeq(last, 1, n - 2) \o patchExt \o <<"map">> ]
      ELSE IF n >= 3 /\ last[n] = "map" /\ last[n - 1] \in { "mjs", "cjs" }
        THEN [ value EXCEPT ![Len(value)] =
                 SubSeq(last, 1, n - 2) \o <<"">> \o patchExt \o <<"map">> ]
      ELSE value

\* The same for /(.+)(.d.ts)(.map)/, which matches x.d.ts.map.
replaceDTS(value, patchExt) ==
  LET last == value[Len(value)]
      n    == Len(last)
  IN  IF n >= 4 /\ last[n] = "map" /\ last[n - 1] = "ts" /\ last[n - 2] = "d"
        THEN [ value EXCEPT ![Len(value)] = SubSeq(last, 1, n - 3) \o patchExt \o <<"map">> ]
        ELSE value

\* The generated text after the replacement of the source map URLs.
Generate(ast, dts, patchExt) ==
  [ i \in 1..Len(ast) |->
      IF ast[i].type = "SourceMappingURL"
        THEN [ ast[i] EXCEPT !.source.value =
                 IF dts THEN replaceDTS(@, patchExt) ELSE replaceJS(@, patchExt) ]
        ELSE ast[i] ]

\* What a call of patch() comes to: the tree after the walk and whether it
\* was modified, or the error thrown.
Walked(src, ast) == [ ast |-> ast, modified |-> ast # src, thrown |-> "" ]

Threw(src, error) == [ ast |-> src, modified |-> FALSE, thrown |-> error ]

\* MJSPatcher.patch: the walk over the declarations and import expressions.
MJSPatch(src, d) ==
  Walked(src,
    [ i \in 1..Len(src) |->
        IF src[i].type \in esmDeclarationsToPatch
          THEN patchDeclaration(src[i], PatchExt.MJS)
        ELSE IF src[i].type = "ImportExpression"
          THEN patchExpression(src[i], PatchExt.MJS)
        ELSE src[i] ])

\* The loop of MTSPatcher.patch and of CTSPatcher.patch over
\* ast.program.body for one declaration.
patchTypeDeclaration(node, ext) ==
  IF /\ node.type \in esmDeclarationsToPatch
     /\ HasValue(node.source)
     /\ isRelative(node.source.value)
     /\ ~endsWith(node.source.value, <<"dist">>)
    THEN [ node EXCEPT !.importKind = "type", !.source.value = appendExt(@, ext) ]
    ELSE node

\* MTSPatcher.patch
MTSPatch(src, d) ==
  Walked(src, [ i \in 1..Len(src) |-> patchTypeDeclaration(src[i], <<"dist", "d", "mts">>) ])

\* A CTSPatcher that is not implemented.
CTSPatchUnimplemented(src, d) == Threw(src, "NotImplemented")

\* CTSPatcher.patch
CTSPatch(src, d) ==
  Walked(src, [ i \in 1..Len(src) |-> patchTypeDeclaration(src[i], <<"dist", "d", "cts">>) ])

\* The file that is patched: resolve(cwd, 'name')
PatchedFile == << <<"name">> >>

\* The file beside the module source rather than beside the compiled file.
requireTargetSource(from, value) == AddExt(PathOf(from, value), "ts")

\* `${resolve(dirname(file), value)}.js`
requireTarget(from, value) == AddExt(PathOf(from, value), "js")

existsSync(d, target) == target \in d

\* The node is a call of the identifier `require`.
IsRequire(node) == node.type = "CallExpression" /\ node.callee = "require"

\* args[0]?.type === 'Literal'
FirstIsLiteral(node) == node.arguments # << >> /\ node.arguments[1].type = "Literal"

\* The CallExpression visitor of CJSPatcher.patch
patchRequire(node, d) ==
  IF /\ IsRequire(node)
     /\ FirstIsLiteral(node)
     /\ isRelative(node.arguments[1].value)
     /\ existsSync(d, requireTarget(PatchedFile, node.arguments[1].value))
    THEN [ node EXCEPT !.arguments[1].value = appendExt(@, PatchExt.CJS) ]
    ELSE node

\* CJSPatcher.patch: value.startsWith is no function when the literal is no
\* string, and the walk throws.
CJSPatch(src, d) ==
  IF \E i \in 1..Len(src) :
       IsRequire(src[i]) /\ FirstIsLiteral(src[i]) /\ ~src[i].arguments[1].string
    THEN Threw(src, "TypeError")
    ELSE Walked(src, [ i \in 1..Len(src) |-> patchRequire(src[i], d) ])

\* Nodes of a file, and calls of patch() on it.
MaxNodes == 2

MaxRuns == 2

Lib == << Dot, <<"lib">> >>

EsmSpecifiers ==
  { Lib,
    << DotDot, <<"lib">> >>,
    << <<"lib">> >>,
    appendExt(Lib, <<"dist", "mjs">>),
    appendExt(Lib, <<"dist">>) }

CjsSpecifiers ==
  { Lib,
    << DotDot, <<"lib">> >>,
    << <<"lib">> >>,
    appendExt(Lib, <<"dist", "cjs">>) }

\* import ... from s, export * from s, export { x }
Declarations ==
  { Node(type, "", StringLiteral(s), << >>) :
      type \in { "ImportDeclaration", "ExportAllDeclaration" }, s \in EsmSpecifiers }
    \cup { Node("ExportNamedDeclaration", "", NoSource, << >>) }

\* import(s) and import('./lib' + dynamic)
ImportExpressions ==
  { Node("ImportExpression", "", src, << >>) :
      src \in { StringLiteral(s) : s \in EsmSpecifiers } \cup { Computed } }

\* require(s), require('./lib', './lib' + dynamic), require('./lib' + dynamic),
\* require(1), require() and load('./lib')
CallExpressions ==
  { Node("CallExpression", "require", NoSource, arguments) :
      arguments \in { << StringLiteral(s) >> : s \in CjsSpecifiers }
                 \cup { << StringLiteral(Lib), Computed >>, << Computed >>,
                        << NumberLiteral >>, << >> } }
    \cup { Node("CallExpression", "load", NoSource, << StringLiteral(Lib) >>) }

\* //# sourceMappingURL=name.js.map and //# sourceMappingURL=name.d.ts.map
SourceMappingURL(ext) ==
  Node("SourceMappingURL", "", StringLiteral(<< <<"name">> \o ext \o <<"map">> >>), << >>)

NodesFor ==
  [ MJS |-> Declarations \cup ImportExpressions \cup { SourceMappingURL(<<"js">>) },
    MTS |-> Declarations \cup { SourceMappingURL(<<"d", "ts">>) },
    CJS |-> CallExpressions \cup { SourceMappingURL(<<"js">>) },
    CTS |-> Declarations \cup { SourceMappingURL(<<"d", "ts">>) } ]

Files(nodes) == UNION { [ 1..n -> nodes ] : n \in 1..MaxNodes }

\* The compiled file and the module source that './lib' may stand for.
Siblings == { << <<"lib", "js">> >>, << <<"lib", "ts">> >> }

\* patch({ file }) of a new Patcher of the class: the file is read, walked
\* and printed, and savePatched records the text if it was modified and
\* writes it unless dryRun is set.
Call(class, result) ==
  /\ runs < MaxRuns
  /\ thrown = ""
  /\ runs' = runs + 1
  /\ input' = content
  /\ thrown' = result.thrown
  /\ LET text == Generate(result.ast, class \in { "MTS", "CTS" }, PatchExt[class]) IN
     /\ record' = IF result.modified THEN << << PatchedFile, text >> >> ELSE << >>
     /\ content' = IF result.modified /\ ~patcher.dryRun THEN text ELSE content
  /\ UNCHANGED << patcher, disk >>
  /\ UNCHANGED << vars, resolverVars, splitVars, restVars >>

PatchMJS ==
  /\ patcher.class = "MJS"
  /\ Call("MJS", MJSPatch(content, disk))

PatchMTS ==
  /\ patcher.class = "MTS"
  /\ Call("MTS", MTSPatch(content, disk))

PatchCJS ==
  /\ patcher.class = "CJS"
  /\ Call("CJS", CJSPatch(content, disk))

PatchCTS ==
  /\ patcher.class = "CTS"
  /\ Call("CTS", CTSPatch(content, disk))

PatchInit ==
  /\ PublisherIdle
  /\ ResolverIdle
  /\ SplitterIdle
  /\ RestIdle
  /\ patcher \in [ class : { "MJS", "MTS", "CJS", "CTS" }, dryRun : BOOLEAN ]
  /\ disk \in IF patcher.class = "CJS" THEN SUBSET Siblings ELSE { {} }
  /\ content \in Files(NodesFor[patcher.class])
  /\ input = << >>
  /\ record = << >>
  /\ thrown = ""
  /\ runs = 0

PatchNext ==
  \/ PatchMJS
  \/ PatchMTS
  \/ PatchCJS
  \/ PatchCTS

PatchSpec == PatchInit /\ [][PatchNext]_allVars

\* The text that the last call of patch() generated: the recorded one, or
\* the text it read if it modified nothing.
Output == IF record # << >> THEN record[1][2] ELSE input

Called(class) == patcher # << >> /\ patcher.class = class /\ runs >= 1

\* The nodes of the file that the last call of patch() read.
Read == 1..Len(input)

\* C16: the module-format code patcher appends its extension to the
\* specifier of a declaration or of a dynamic import exactly when the specifier
\* is relative and does not end in the extension yet, and a call on a file
\* that an earlier call patched on disk changes nothing.
C16_MJSPatchesOnceOnly ==
  Called("MJS") =>
    /\ \A i \in Read :
         (input[i].type \in esmDeclarationsToPatch \cup { "ImportExpression" }
            /\ HasValue(input[i].source))
           => Output[i].source.value =
                IF /\ isRelative(input[i].source.value)
                   /\ ~endsWith(input[i].source.value, PatchExt.MJS)
                  THEN appendExt(input[i].source.value, PatchExt.MJS)
                  ELSE input[i].source.value
    /\ (runs >= 2 /\ ~patcher.dryRun) => record = << >>

\* C17: the declarations patcher appends `.dist`, and nothing more, to a
\* relative specifier that it rewrites.
C17_MTSAppendsDist ==
  Called("MTS") =>
    \A i \in Read :
      Output[i] # input[i]
        => (input[i].type \in esmDeclarationsToPatch
              => Output[i].source.value = appendExt(input[i].source.value, <<"dist">>))

\* The call is require(literal) with a relative string literal.
RelativeRequire(node) ==
  /\ IsRequire(node)
  /\ FirstIsLiteral(node)
  /\ node.arguments[1].string
  /\ isRelative(node.arguments[1].value)

\* The module source and the compiled file that a require of `value` in the
\* patched file may stand for: the resolved path plus `.ts`, and plus `.js`.
ModuleSource(value) == AddExt(PathOf(PatchedFile, value), "ts")

CompiledFile(value) == AddExt(PathOf(PatchedFile, value), "js")

C19_OnlyOneLiteralArgument ==
  Called("CJS") =>
    \A i \in Read :
      (input[i].type = "CallExpression" /\ Output[i] # input[i])
        => RelativeRequire(input[i]) /\ Len(input[i].arguments) = 1

\* C20, as stated: a call of the commonjs declarations patcher fails with
\* NotImplemented and records nothing.
C20_CTSNotImplemented ==
  Called("CTS") => thrown = "NotImplemented" /\ record = << >>

\* C20, amended: a call of the commonjs declarations patcher does not fail;
\* it appends `.dist.d.cts` to the specifier of every top-level declaration
\* that is relative and does not end in `.dist`, makes that declaration
\* type-only, leaves every other node as it was, and records the text when
\* it rewrote a specifier.
C20_CTSPatchesDeclarations ==
  Called("CTS") =>
    /\ thrown = ""
    /\ \A i \in Read :
         IF /\ input[i].type \in esmDeclarationsToPatch
            /\ HasValue(input[i].source)
            /\ isRelative(input[i].source.value)
            /\ ~endsWith(input[i].source.value, <<"dist">>)
           THEN /\ Output[i].source.value
                     = appendExt(input[i].source.value, <<"dist", "d", "cts">>)
                /\ Output[i].importKind = "type"
           ELSE input[i].type # "SourceMappingURL" => Output[i] = input[i]
    /\ record # << >> <=> \E i \in Read :
         /\ input[i].type \in esmDeclarationsToPatch
         /\ HasValue(input[i].source)
         /\ isRelative(input[i].source.value)
         /\ ~endsWith(input[i].source.value, <<"dist">>)

\* The commonjs declarations patcher rewrote `from './lib'` to
\* `from './lib.dist.d.cts'` and recorded the text.
C20_Witness ==
  /\ Called("CTS")
  /\ record # << >>
  /\ \E i \in Read :
       /\ input[i].source.value = Lib
       /\ Output[i].source.value = appendExt(Lib, <<"dist", "d", "cts">>)

(***************************************************************************)
(* The concurrent emitPatched tasks and the package root                   *)
(***************************************************************************)

\* The scratch directory of each emitPatched call of compileAndPatch.
OutDir(f) == IF f = "esm" THEN ".ubik-esm" ELSE ".ubik-cjs"

\* The emitPatched call of format f is between its first await and its end.
InFlight(f) == task[f] \notin {"idle", "done", "failed"}

\* A step of the in-flight task of format f.
TaskStep(f) == InFlight(f) /\ task'[f] # task[f]

\* C21: the tasks of the two formats work in distinct scratch directories,
\* and a step of a task that is in flight writes to the scratch directory of
\* its own format only: it leaves the package root, the set of generated
\* files, the manifest and its backup, and the scratch directory of the
\* other format as they are.
C21_TasksWriteOnlyOwnScratch ==
  [][ \A f \in Formats : TaskStep(f) =>
        /\ \A g \in Formats \ {f} : OutDir(g) # OutDir(f) /\ scratch'[g] = scratch[g]
        /\ UNCHANGED << rootFiles, generated, pkg, pkgJsonFile, bakFile >> ]_allVars

(***************************************************************************)
(* The manifest rewriters: patchPackageJson (src/tool/tool-package.mjs)    *)
(* and the entrypoints that Compiler.compileAndPatch sets                  *)
(***************************************************************************)

\* A field of the manifest that is undefined.
NoPath == << >>

\* toRel (cwd, path) on a path inside cwd.
toRel(x) == [ x EXCEPT ![1] = "./" \o @ ]

distDtsExt == <<"dist", "d", "ts">>

distEsmExt == <<"dist", "mjs">>

distCjsExt == <<"dist", "cjs">>

\* `exports` is a set of << key path, value >>: the key path of the
\* condition c of the subpath "." is << ".", c >>.
NoExports == [ defined |-> FALSE, entries |-> {} ]

EmptyExports == [ defined |-> TRUE, entries |-> {} ]

\* pkgJson.exports ??= {} and this.pkg.exports ||= {}
orEmpty(exps) == IF exps.defined THEN exps ELSE EmptyExports

Put(entries, key, value) == { e \in entries : e[1] # key } \cup { << key, value >> }

HasKey(entries, key) == \E e \in entries : e[1] = key

Get(entries, key) == (CHOOSE e \in entries : e[1] = key)[2]

\* exports["."], flattened
Root(entries) == { e \in entries : Head(e[1]) = "." }

\* exports["."] = conds
SetRoot(entries, conds) ==
  (entries \ Root(entries)) \cup { << <<".">> \o <<c[1]>>, c[2] >> : c \in conds }

\* patchPackageJson ({ cwd, pkgJson, forceTS, distEsmExt, distCjsExt, distDtsExt }):
\* the object as the call leaves it and the error it throws.
patchPackageJson(m, force) ==
  LET main    == IF m.main = NoPath THEN <<"index", "ts">> ELSE m.main
      esmMain == replaceExtension(main, <<"ts">>, distEsmExt)
      cjsMain == replaceExtension(main, <<"ts">>, distCjsExt)
      dtsMain == replaceExtension(main, <<"ts">>, distDtsExt)
      typed   == [ m EXCEPT !.types = toRel(dtsMain), !.exports = orEmpty(@) ]
  IN IF force /\ m.main = NoPath
       THEN [ pkgJson |-> typed, threw |-> "TypeError" ]
     ELSE IF force /\ EndsWith(m.main, <<"js">>)
       THEN [ pkgJson |-> typed, threw |-> "WrongMainExtension" ]
     ELSE IF m.type = "module"
       THEN [ pkgJson |-> [ typed EXCEPT
                !.main = toRel(esmMain),
                !.exports.entries = SetRoot(@, { << "source",  toRel(main) >>,
                                                 << "require", toRel(cjsMain) >>,
                                                 << "default", toRel(esmMain) >> }) ],
              threw |-> "" ]
       ELSE [ pkgJson |-> [ typed EXCEPT
                !.main = toRel(esmMain),
                !.exports.entries = SetRoot(@, { << "source",  toRel(main) >>,
                                                 << "import",  toRel(esmMain) >>,
                                                 << "default", toRel(cjsMain) >> }) ],
              threw |-> "" ]

\* Compiler.compileAndPatch, what it does to this.pkg but for `files`: the
\* marker, the default of main, the inherited exports, the browser
\* entrypoint, the conditions of "." and the default entrypoints.
entrypoints(m) ==
  LET main     == IF m.main = NoPath THEN <<"index", "ts">> ELSE m.main
      given0   == orEmpty(m.exports).entries
      nested   == IF Root(given0) # {}
                    THEN { << <<".">> \o e[1], e[2] >> : e \in given0 } ELSE {}
      sourced  == (given0 \ Root(given0)) \cup
                  Put(nested, <<".", "source">>, toRel(main))
      ext      == IF m.type = "module" THEN distEsmExt ELSE distCjsExt
      browser  == toRel(replaceExtension(m.browser, <<"ts">>, ext))
      browsed  == IF m.browser # NoPath
                    THEN Put(sourced, <<".", "browser">>, browser) ELSE sourced
      Dist(e)  == toRel(replaceExtension(main, <<"ts">>, e))
      imports0 == Put(Put(browsed, <<".", "import", "types">>, Dist(<<"dist", "d", "mts">>)),
                      <<".", "import", "default">>, Dist(<<"dist", "mjs">>))
      requires == Put(Put(imports0, <<".", "require", "types">>, Dist(<<"dist", "d", "cts">>)),
                      <<".", "require", "default">>, Dist(<<"dist", "cjs">>))
      top      == Put(Put(requires, <<".", "types">>,
                          Dist(IF m.type # "module" THEN <<"dist", "d", "mts">>
                                                    ELSE <<"dist", "d", "cts">>)),
                      <<".", "default">>,
                      Dist(IF m.type # "module" THEN <<"dist", "mjs">>
                                                ELSE <<"dist", "cjs">>))
  IN [ m EXCEPT
         !.ubik    = TRUE,
         !.browser = IF @ # NoPath THEN browser ELSE @,
         !.exports = [ defined |-> TRUE, entries |-> top ],
         !.types   = IF m.type # "module" THEN Dist(<<"dist", "d", "cts">>)
                                          ELSE Dist(<<"dist", "d", "mts">>),
         !.main    = IF m.type # "module" THEN Dist(<<"dist", "cjs">>)
                                          ELSE Dist(<<"dist", "mjs">>) ]

\* The `exports` that the packages under test come with.
ExportPresets ==
  { NoExports,
    EmptyExports,
    [ defined |-> TRUE, entries |-> { << <<".", "node">>, <<"./custom", "js">> >> } ],
    [ defined |-> TRUE, entries |-> { << <<"./sub">>, <<"./sub", "js">> >> } ] }

Manifests ==
  [ main    : { NoPath, <<"index", "ts">>, <<"index", "js">> },
    type    : { "", "module", "commonjs" },
    browser : { NoPath, <<"index", "browser", "ts">> },
    types   : { NoPath, <<"./types", "d", "ts">> },
    exports : ExportPresets,
    ubik    : { FALSE } ]

\* Package.patchPackageJson({ pkgJson, forceTS, ... })
PatchPackageJson ==
  /\ rewrite.by = ""
  /\ LET r == patchPackageJson(pkgJson, rewrite.forceTS) IN
       /\ pkgJson' = r.pkgJson
       /\ rewrite' = [ rewrite EXCEPT !.by = "patchPackageJson", !.threw = r.threw ]
  /\ UNCHANGED << vars, resolverVars, splitVars, patcherVars, fixVars, starVars, loadVars >>

\* compileAndPatch on the manifest object of a package that isTypeScript.
Entrypoints ==
  /\ rewrite.by = ""
  /\ rewrite.forceTS \/ (pkgJson.main # NoPath /\ EndsWith(pkgJson.main, <<"ts">>))
  /\ pkgJson' = entrypoints(pkgJson)
  /\ rewrite' = [ rewrite EXCEPT !.by = "compileAndPatch" ]
  /\ UNCHANGED << vars, resolverVars, splitVars, patcherVars, fixVars, starVars, loadVars >>

ManifestInit ==
  /\ PublisherIdle
  /\ ResolverIdle
  /\ SplitterIdle
  /\ PatcherIdle
  /\ FixIdle
  /\ StarsIdle
  /\ LoadIdle
  /\ pkgJson \in Manifests
  /\ \E force \in BOOLEAN :
       rewrite = [ by |-> "", forceTS |-> force, given |-> pkgJson, threw |-> "" ]

ManifestNext ==
  \/ PatchPackageJson
  \/ Entrypoints

ManifestSpec == ManifestInit /\ [][ManifestNext]_allVars

\* C22: when patchPackageJson throws WrongMainExtension (UBIK_FORCE_TS is on
\* and `main` ends in .js), every field of the manifest object it was given
\* still has the value it came with.
C22_WrongMainExtensionBeforeMutation ==
  (rewrite.by = "patchPackageJson" /\ rewrite.threw = "WrongMainExtension") =>
    pkgJson = rewrite.given

\* The output format that an entrypoint names.
FormatOf(x) ==
  IF EndsWith(x, <<"mjs">>) THEN "esm"
  ELSE IF EndsWith(x, <<"cjs">>) THEN "cjs"
  ELSE "none"

\* The format that a package of this `type` loads by default.
DefaultFormat(type) == IF type = "module" THEN "esm" ELSE "cjs"

\* C30: after the rewrite of the manifest, `main` and the `default`
\* condition of the "." export name outputs of the same format: the ESM
\* output if the package type is "module", the CommonJS output otherwise.
C30_MainAndDefaultAgree ==
  (rewrite # << >> /\ rewrite.by # "" /\ rewrite.threw = "") =>
    /\ FormatOf(pkgJson.main) = DefaultFormat(pkgJson.type)
    /\ HasKey(pkgJson.exports.entries, <<".", "default">>)
    /\ FormatOf(Get(pkgJson.exports.entries, <<".", "default">>)) = DefaultFormat(pkgJson.type)

(***************************************************************************)
(* fixImportDirs: directory imports get their /index (src/src/Patcher.mjs) *)
(***************************************************************************)

\* specifier.endsWith('/index')
EndsInIndex(p) == Len(p) >= 2 /\ p[Len(p)] = <<"index">>

\* resolved.path.endsWith('/index.ts')
EndsInIndexTs(p) == Len(p) >= 2 /\ p[Len(p)] = <<"index", "ts">>

\* A normalizer without the test of the specifier's ending.
enforceAlways(idx, path, specifier0) ==
  LET r == resolve(idx, path, specifier0) IN
  IF r.kind = "threw" THEN [ specifier |-> specifier0, thrown |-> r.error ]
  ELSE IF r.kind = "entry"
    THEN [ specifier |-> IF EndsInIndexTs(r.path)
                           THEN Sub(specifier0, <<"index">>) ELSE specifier0,
           thrown |-> "" ]
  ELSE [ specifier |-> specifier0,
         thrown |-> IF StartsWithDot(specifier0) THEN "failed resolving" ELSE "" ]

\* enforceFileSpecifier (resolver, entry, specifier), and addDirectorySuffix
\* of the older tool: the specifier returned, or the error thrown.
enforceFileSpecifier(idx, path, specifier0) ==
  LET r == resolve(idx, path, specifier0) IN
  IF r.kind = "threw" THEN [ specifier |-> specifier0, thrown |-> r.error ]
  ELSE IF r.kind = "entry"
    THEN [ specifier |-> IF EndsInIndexTs(r.path) /\ ~EndsInIndex(specifier0)
                           THEN Sub(specifier0, <<"index">>) ELSE specifier0,
           thrown |-> "" ]
  ELSE [ specifier |-> specifier0,
         thrown |-> IF StartsWithDot(specifier0) THEN "failed resolving" ELSE "" ]

\* Calls of fixImportDirs on one Resolver.
MaxFixes == 2

FixTreePaths ==
  { << <<"foo">> >>,
    << <<"foo", "ts">> >>,
    << <<"foo">>, <<"index", "ts">> >>,
    << <<"foo">>, <<"index">> >>,
    << <<"foo">>, <<"index">>, <<"index", "ts">> >>,
    << <<"index", "ts">> >> }

\* foo and foo/index are directories when they exist; the rest are files.
FixTrees ==
  { t \in [ FixTreePaths -> {"absent", "file", "dir"} ] :
      /\ \A p \in FixTreePaths :
           /\ Len(p) > 1 /\ t[p] # "absent" => t[SubSeq(p, 1, Len(p) - 1)] = "dir"
           /\ p \in { << <<"foo">> >>, << <<"foo">>, <<"index">> >> } => t[p] # "file"
           /\ p \notin { << <<"foo">> >>, << <<"foo">>, <<"index">> >> } => t[p] # "dir" }

FixSpecifiers ==
  { << Dot, <<"foo">> >>,
    << Dot, <<"foo">>, <<"index">> >>,
    << Dot, <<"foo">>, <<"index">>, <<"index">> >>,
    << Dot, <<"index">> >>,
    << DotDot, <<"foo">> >>,
    << Dot >>,
    << DotDot >>,
    << Dot, <<"missing">> >>,
    << <<"foo">>, <<"index">> >> }

\* fixImportDirs (resolver, dry), for the declaration under watch: the
\* visitor replaces its source and marks the entry.
FixImportDirs ==
  /\ fixing.thrown = ""
  /\ fixing.runs < MaxFixes
  /\ LET r == enforceFileSpecifier(index, fixing.path, fixing.specifier) IN
       fixing' = [ fixing EXCEPT
                     !.specifier = r.specifier,
                     !.modified  = @ \/ (r.thrown = "" /\ r.specifier # fixing.specifier),
                     !.thrown    = r.thrown,
                     !.runs      = @ + 1 ]
  /\ UNCHANGED << vars, resolverVars, splitVars, patcherVars, manifestVars, starVars, loadVars >>

FixInit ==
  /\ PublisherIdle
  /\ SplitterIdle
  /\ PatcherIdle
  /\ ManifestIdle
  /\ StarsIdle
  /\ LoadIdle
  /\ tree \in FixTrees
  /\ index = load(tree)
  /\ loaded = TRUE
  /\ resolved = NoCall
  /\ \E path \in Sources, specifier0 \in FixSpecifiers :
       fixing = [ path |-> path, given |-> specifier0, specifier |-> specifier0,
                  modified |-> FALSE, thrown |-> "", runs |-> 0 ]

FixNext == FixImportDirs

FixSpec == FixInit /\ [][FixNext]_allVars

\* C23: a pass of fixImportDirs over a declaration whose specifier ends in
\* /index, or over one that an earlier pass has normalized, does not throw
\* where the earlier pass did not and leaves the specifier as it is.
C23_NormalizationIdempotent ==
  [][ /\ fixing'.runs = fixing.runs + 1
      /\ fixing.runs >= 1 \/ (EndsInIndex(fixing.specifier) /\ fixing'.thrown = "")
      => /\ fixing'.specifier = fixing.specifier
         /\ fixing'.thrown = "" ]_allVars

\* C23 witness: ./foo named the directory foo, the first pass made it
\* ./foo/index and the second pass has run.
C23_Witness ==
  /\ fixing.given = << Dot, <<"foo">> >>
  /\ fixing.specifier = << Dot, <<"foo">>, <<"index">> >>
  /\ fixing.modified
  /\ fixing.runs = 2
  /\ fixing.thrown = ""

(***************************************************************************)
(* Compiler.compileAndPatch: what a run leaves behind                      *)
(***************************************************************************)

\* compileAndPatch has rewritten the manifest object and not yet returned
\* from performRelease.
Committed == pc \in {"backup", "write", "publish"}

\* What compileAndPatch returns: this.generated
Returned == generated

\* C24: once compileAndPatch has rewritten the manifest, every file that
\* collect has put into the package root is in the set that compileAndPatch
\* returns and in `files` of the manifest.
C24_RelocatedFilesListed ==
  Committed => (rootFiles \subseteq Returned /\ rootFiles \subseteq pkg.files)

\* C24 witness: both formats have been collected into the package root and
\* the manifest has been rewritten.
C24_Witness ==
  /\ Committed
  /\ \A f \in Formats : \E x \in rootFiles : EndsWith(x, EmitOptions(f).outputs)
  /\ Cardinality(rootFiles) = 8 * MaxMods

\* The run is over: releasePackage has returned or thrown and no emitPatched
\* call is still in flight.
RunOver == pc = "done" /\ \A f \in Formats : ~InFlight(f)

\* C26: when a run is over, whether it published or failed and reverted,
\* none of its scratch directories exists any more.
C26_ScratchGoneAfterRun ==
  RunOver => \A f \in Formats : ~scratch[f].dir

\* C27: when an emitPatched call has failed and triggered the revert
\* (keep is off) while the call of the other format was still in flight,
\* then, once both calls have settled, no generated file is in the package
\* root.
C27_NoFilesAfterConcurrentRevert ==
  ( /\ outcome = "threw"
    /\ via = "revert"
    /\ ~opts.keep
    /\ \E f \in Formats : task[f] = "failed"
    /\ \A f \in Formats : ~InFlight(f) )
  => rootFiles = {}

(***************************************************************************)
(* Runs that follow one another in one package directory                   *)
(***************************************************************************)

\* The manifest of the package before any run: named, versioned, public,
\* unprocessed, with a TypeScript entrypoint.
Unprocessed ==
  [ name |-> "name", version |-> "version", private |-> FALSE, ubik |-> FALSE,
    main |-> <<"index", "ts">>, files |-> {} ]

\* What compileAndPatch has collected when it writes the manifest.
AllGenerated ==
  UNION { { replaceExtension(x, CollectExts(c[1], c[2])[1], CollectExts(c[1], c[2])[2]) :
              x \in { y \in AllTscOutputs : EndsWith(y, CollectExts(c[1], c[2])[1]) } } :
          c \in Formats \X {"collectCode", "collectMaps", "collectTypes", "collectTypeMaps"} }

\* new Package(cwd): the manifest object read from package.json, which
\* holds the unprocessed manifest or one that compileAndPatch wrote.
ReadManifest(onDisk) ==
  IF onDisk = "orig" THEN Unprocessed
  ELSE [ Unprocessed EXCEPT
           !.ubik  = TRUE,
           !.files = AllGenerated,
           !.main  = entrypoints([ main |-> Unprocessed.main, type |-> "",
                                    browser |-> NoPath, types |-> NoPath,
                                    exports |-> NoExports, ubik |-> FALSE ]).main ]

\* The next invocation in the same directory, with options of its own,
\* after a run that came to its end without an error: a new Publisher and
\* Compiler over the files that the last run left.
NextRun ==
  /\ UNCHANGED toolVars
  /\ RunOver
  /\ outcome = "returned"
  /\ opts' \in [ dryRun : BOOLEAN, keep : BOOLEAN ]
  /\ env' \in [ skipFixed : BOOLEAN, forceTS : BOOLEAN ]
  /\ pkg' = ReadManifest(pkgJsonFile)
  /\ origPkg' = pkg'
  /\ args' = << >>
  /\ tag' = ""
  /\ status' = 0
  /\ pc' = "start"
  /\ task' = [ f \in Formats |-> "idle" ]
  /\ generated' = {}
  /\ patched' = [ f \in Formats |-> {} ]
  /\ patchWrites' = {}
  /\ cmds' = {}
  /\ outcome' = "none"
  /\ retval' = ""
  /\ delivered' = ""
  /\ raised' = ""
  /\ via' = ""
  /\ failedIn' = ""
  /\ UNCHANGED << gitTag, pkgJsonFile, bakFile, rootFiles, scratch >>

\* The first run finds the package unprocessed and clean.
RunsInit ==
  /\ Init
  /\ pkg = Unprocessed
  /\ args = << >>
  /\ ~gitTag

RunsNext ==
  \/ Release
  \/ Fetched
  \/ \E f \in Formats : TscExit(f)
  \/ \E f \in Formats : PatchAll(f)
  \/ \E f \in Formats : Collect(f)
  \/ ManifestRewrite
  \/ Backup
  \/ WriteManifest
  \/ Publish
  \/ NextRun

RunsSpec == RunsInit /\ [][RunsNext]_allVars

\* C29: over any sequence of runs in one package directory, with keep on or
\* off, package.json.bak, whenever it exists, holds the unprocessed manifest
\* and never one that carries the `ubik` marker.
C29_BackupIsUnprocessed ==
  bakFile # "absent" => bakFile = "orig"

(***************************************************************************)
(* separateNamespaceImport (src/src/Patcher.mjs)                           *)
(***************************************************************************)

\* Statements of the file.  An ImportDeclaration has its importKind, its
\* source and its first specifier: the form is "namespace" (import * as x),
\* "default" (import x), "named" (import { x }) or "bare" (import "m", no
\* specifier), and `local` is the local name.  A TSTypeReference stands for
\* a statement with the annotation `local.Bar`.
ImportNode(importKind, src, form, local) ==
  [ type |-> "ImportDeclaration", importKind |-> importKind, source |-> src,
    form |-> form, local |-> local ]

TypeReference(left) ==
  [ type |-> "TSTypeReference", importKind |-> "", source |-> "", form |-> "",
    local |-> left ]

\* const <local> = <from>['default']
Destructuring(local, from) ==
  [ type |-> "VariableDeclaration", importKind |-> "", source |-> from, form |-> "",
    local |-> local ]

\* A declaration of the form `import * as foo from "foobar"`, the one that
\* the loop is after.
isImportStarOnly(node, packageName) ==
  /\ node.type = "ImportDeclaration"
  /\ node.importKind = "value"
  /\ node.source = packageName
  /\ node.form = "namespace"

\* The test under "If this is an import star from the specified module".
isImportStar(node, packageName) ==
  /\ node.type = "ImportDeclaration"
  /\ node.importKind = "value"
  /\ node.source = packageName

\* The loop over parsed.program.body: the index at which it breaks, 0 when
\* it runs to the end.
FirstMatch(body, packageName) ==
  IF \E i \in 1..Len(body) : isImportStar(body[i], packageName)
    THEN CHOOSE i \in 1..Len(body) :
           /\ isImportStar(body[i], packageName)
           /\ \A j \in 1..(i - 1) : ~isImportStar(body[j], packageName)
    ELSE 0

\* separateNamespaceImport ({ path, packageName, dryRun }): the body after
\* the call, the index and the name chosen, the error thrown, and whether
\* the file was written.
separateNamespaceImport(body, packageName, dryRun) ==
  LET at == FirstMatch(body, packageName) IN
  IF at = 0
    THEN [ body |-> body, at |-> 0, name |-> "", thrown |-> "", wrote |-> FALSE ]
  ELSE IF body[at].form = "bare"
    THEN [ body |-> body, at |-> at, name |-> "", thrown |-> "TypeError", wrote |-> FALSE ]
  ELSE LET name     == body[at].local
           prefixed == [ body EXCEPT ![at].local = "__" \o name ]
           spliced  == SubSeq(prefixed, 1, at)
                       \o << ImportNode("type", packageName, "namespace", "_" \o name),
                             Destructuring(name, "__" \o name) >>
                       \o SubSeq(prefixed, at + 1, Len(prefixed))
           visited  == [ i \in 1..Len(spliced) |->
                           IF spliced[i].type = "TSTypeReference" /\ spliced[i].local = name
                             THEN [ spliced[i] EXCEPT !.local = "_" \o name ]
                             ELSE spliced[i] ]
       IN [ body |-> visited, at |-> at, name |-> name, thrown |-> "",
            wrote |-> ~dryRun ]

\* Statements per file
MaxBody == 2

PackageNames == { "foobar", "other" }

StarNodes ==
  { ImportNode(k, s, f, "foo") :
      k \in {"value", "type"}, s \in PackageNames, f \in {"namespace", "default", "named"} }
  \cup { ImportNode("value", s, "bare", "") : s \in PackageNames }
  \cup { TypeReference("foo") }

Programs == UNION { [ 1..n -> StarNodes ] : n \in 0..MaxBody }

\* ubik split-stars: separateNamespaceImport on the file
SeparateNamespaceImport ==
  /\ stars.at = -1
  /\ LET r == separateNamespaceImport(program, stars.packageName, stars.dryRun) IN
       /\ program' = r.body
       /\ stars' = [ stars EXCEPT !.at = r.at, !.name = r.name, !.thrown = r.thrown,
                                  !.wrote = r.wrote ]
  /\ UNCHANGED << vars, resolverVars, splitVars, patcherVars, manifestVars, fixVars,
                  loadVars >>

StarsInit ==
  /\ PublisherIdle
  /\ ResolverIdle
  /\ SplitterIdle
  /\ PatcherIdle
  /\ ManifestIdle
  /\ FixIdle
  /\ LoadIdle
  /\ program \in Programs
  /\ \E dry \in BOOLEAN :
       stars = [ packageName |-> "foobar", dryRun |-> dry, given |-> program,
                 at |-> -1, name |-> "", thrown |-> "", wrote |-> FALSE ]

StarsNext == SeparateNamespaceImport

StarsSpec == StarsInit /\ [][StarsNext]_allVars

\* C25: the declaration that separateNamespaceImport picks is a whole-module
\* import (import * as name) of the given package, and the first of these in
\* the file: it never picks a default or a named import of that package.
C25_SplitsFirstNamespaceImport ==
  stars.at >= 1 =>
    /\ isImportStarOnly(stars.given[stars.at], stars.packageName)
    /\ \A j \in 1..(stars.at - 1) : ~isImportStarOnly(stars.given[j], stars.packageName)

(***************************************************************************)
(* The lazy load of a TSFile (src/tool/tool-resolve.mjs) and               *)
(* getImportsExports (src/tool/tool-parse.mjs)                             *)
(***************************************************************************)

\* The modules a.ts and b.ts of one directory; './a' resolves to a.ts.
LoadModules == { "a", "b" }

\* export * from './<target>'
ExportAllDeclaration(target) ==
  [ type |-> "ExportAllDeclaration", target |-> target, name |-> "" ]

\* export const <name> = ...
ExportDeclaration(name) ==
  [ type |-> "ExportNamedDeclaration", target |-> "", name |-> name ]

\* Declarations per module
MaxDeclarations == 2

\* Nested calls that the call stack of the engine holds
MaxStack == 4

LoadBodies ==
  UNION { [ 1..n -> { ExportAllDeclaration(t) : t \in LoadModules }
                    \cup { ExportDeclaration("A") } ] : n \in 0..MaxDeclarations }

\* A call of TSFile.load in progress: getImportsExports is at declaration
\* `at` of the module and has these exports so far.
Frame(path) == [ path |-> path, at |-> 1, exports |-> {} ]

\* The getters of the prototype are in force until load has defined the
\* properties of the TSFile itself.
Unloaded == [ loaded |-> FALSE, exports |-> {} ]

\* `get exports () { this.load(); return this.exports }` called from outside
GetExports ==
  /\ loading.stack = << >>
  /\ loading.thrown = ""
  /\ \E m \in LoadModules :
       /\ ~loading.sets[m].loaded
       /\ loading' = [ loading EXCEPT !.stack = << Frame(m) >> ]
  /\ UNCHANGED bodies
  /\ UNCHANGED << vars, resolverVars, splitVars, patcherVars, manifestVars, fixVars,
                  starVars >>

\* One turn of the loop of getImportsExports in the innermost load.  At an
\* ExportAllDeclaration it reads resolved.exportTypes and resolved.exports:
\* own properties if the target is loaded, else the getter, which calls
\* load() of the target; a call beyond the stack of the engine throws
\* RangeError through all the loads in progress.
VisitDeclaration ==
  /\ loading.stack # << >>
  /\ LET depth == Len(loading.stack)
         top   == loading.stack[depth]
     IN /\ top.at <= Len(bodies[top.path])
        /\ LET d == bodies[top.path][top.at] IN
             IF d.type = "ExportNamedDeclaration"
               THEN loading' = [ loading EXCEPT !.stack[depth].exports = @ \cup { d.name },
                                                !.stack[depth].at = @ + 1 ]
             ELSE IF loading.sets[d.target].loaded
               THEN loading' = [ loading EXCEPT
                                   !.stack[depth].exports = @ \cup loading.sets[d.target].exports,
                                   !.stack[depth].at = @ + 1 ]
             ELSE IF depth < MaxStack
               THEN loading' = [ loading EXCEPT !.stack = Append(@, Frame(d.target)) ]
             ELSE loading' = [ loading EXCEPT !.stack = << >>, !.thrown = "RangeError" ]
  /\ UNCHANGED bodies
  /\ UNCHANGED << vars, resolverVars, splitVars, patcherVars, manifestVars, fixVars,
                  starVars >>

\* getImportsExports returns and load defines the properties of the TSFile.
Loaded ==
  /\ loading.stack # << >>
  /\ LET depth == Len(loading.stack)
         top   == loading.stack[depth]
     IN /\ top.at > Len(bodies[top.path])
        /\ loading' = [ loading EXCEPT
                          !.stack = SubSeq(@, 1, depth - 1),
                          !.sets[top.path] = [ loaded |-> TRUE, exports |-> top.exports ] ]
  /\ UNCHANGED bodies
  /\ UNCHANGED << vars, resolverVars, splitVars, patcherVars, manifestVars, fixVars,
                  starVars >>

LoadInit ==
  /\ PublisherIdle
  /\ ResolverIdle
  /\ SplitterIdle
  /\ PatcherIdle
  /\ ManifestIdle
  /\ FixIdle
  /\ StarsIdle
  /\ bodies \in [ LoadModules -> LoadBodies ]
  /\ loading = [ stack |-> << >>, sets |-> [ m \in LoadModules |-> Unloaded ],
                 thrown |-> "" ]

LoadNext ==
  \/ GetExports
  \/ VisitDeclaration
  \/ Loaded

LoadSpec == LoadInit /\ [][LoadNext]_allVars

\* C28: asking a module for its declaration sets comes to an end whatever
\* the wildcard re-exports are, cycles included: the loads that are in
\* progress one inside the other never exhaust the call stack.
C28_CyclicReexportsTerminate ==
  loading.thrown # "RangeError"

====
